---- MODULE Spec2Model ----
(***************************************************************************)
(* let-me-paginate: the bounded TTL-LRU cache (MemoryCacheService,         *)
(* SimpleCache) and the pagination engines (CorePaginator,                 *)
(* PaginatorService) as state machines.                                    *)
(*                                                                         *)
(* Strings are sequences of character codes; an optional value is the      *)
(* empty tuple (undefined) or a one-element tuple holding the value.       *)
(***************************************************************************)
EXTENDS Integers, Sequences, FiniteSets, TLC

VARIABLES
    cache,          \* Map<string, CacheEntry>, in insertion order
    accessOrder,    \* Map<string, number>, in insertion order
    accessCounter,  \* the recency counter
    maxSize,        \* the configured capacity
    impl,           \* which cache class this instance is: "memory" or "simple"
    now,            \* Date.now()
    engine,         \* the pagination engine in front of the cache, if any
    last,           \* the last completed call: operation, arguments, result
    script          \* a scripted caller: the keys it uses and the calls it still has to make

vars == <<cache, accessOrder, accessCounter, maxSize, impl, now, engine, last, script>>

----------------------------------------------------------------------------
(* Bounds of the model *)

MaxN == 2
MaxTime == 2
MaxAccess == 3
MaxLen == 3
MaxCalls == 3

----------------------------------------------------------------------------
(* Optional values and strings *)

Undefined == <<>>
Some(x) == <<x>>
IsDefined(o) == o /= <<>>

EmptyString == <<>>

\* JS truthiness of a string | undefined
TruthyString(o) == IsDefined(o) /\ o[1] /= EmptyString

\* JS truthiness of a number | undefined
TruthyNumber(o) == IsDefined(o) /\ o[1] /= 0

Infinity == 2147483647

----------------------------------------------------------------------------
(* JS Map, iterated in insertion order: a sequence of [key, val] *)

MapHas(m, k) == \E i \in 1..Len(m) : m[i].key = k

MapGet(m, k) ==
    IF MapHas(m, k)
    THEN Some(m[CHOOSE i \in 1..Len(m) : m[i].key = k].val)
    ELSE Undefined

MapSet(m, k, v) ==
    IF MapHas(m, k)
    THEN [i \in 1..Len(m) |-> IF m[i].key = k THEN [key |-> k, val |-> v] ELSE m[i]]
    ELSE Append(m, [key |-> k, val |-> v])

MapDelete(m, k) == SelectSeq(m, LAMBDA e : e.key /= k)

MapKeys(m) == {m[i].key : i \in 1..Len(m)}

----------------------------------------------------------------------------
(* The cache object: [cache, accessOrder, accessCounter] *)

CacheObject(c, o, n) == [cache |-> c, accessOrder |-> o, accessCounter |-> n]

This == CacheObject(cache, accessOrder, accessCounter)

IsExpiredMutant(t, entry) == t >= entry.expiresAt

\* Date.now() > entry.expiresAt
IsExpired(t, entry) == t > entry.expiresAt

CacheDeleteMutant(c, key) == [c EXCEPT !.cache = MapDelete(@, key)]

\* delete(key)
CacheDelete(c, key) ==
    [c EXCEPT !.cache = MapDelete(@, key), !.accessOrder = MapDelete(@, key)]

TouchMutant(c, key) == [c EXCEPT !.accessOrder = MapSet(@, key, c.accessCounter + 1)]

\* this.accessOrder.set(key, ++this.accessCounter)
Touch(c, key) ==
    [c EXCEPT !.accessCounter = @ + 1,
              !.accessOrder = MapSet(@, key, c.accessCounter + 1)]

CacheGetMutant(c, t, key) ==
    IF Len(c.cache) = 0 THEN [c |-> c, ret |-> Undefined, branch |-> "miss"]
    ELSE [c |-> Touch(c, c.cache[1].key), ret |-> Some(c.cache[1].val.value), branch |-> "hit"]

\* get(key): the new cache object, the returned value and the branch taken
CacheGet(c, t, key) ==
    LET entry == MapGet(c.cache, key) IN
    IF ~IsDefined(entry)
    THEN [c |-> c, ret |-> Undefined, branch |-> "miss"]
    ELSE IF IsExpired(t, entry[1])
    THEN [c |-> CacheDelete(c, key), ret |-> Undefined, branch |-> "expired"]
    ELSE [c |-> Touch(c, key), ret |-> Some(entry[1].value), branch |-> "hit"]

CacheHasMutant(c, t, key) ==
    LET entry == MapGet(c.cache, key) IN
    IF ~IsDefined(entry)
    THEN [c |-> c, ret |-> FALSE, branch |-> "miss"]
    ELSE IF IsExpired(t, entry[1])
    THEN [c |-> CacheDelete(c, key), ret |-> FALSE, branch |-> "expired"]
    ELSE [c |-> [c EXCEPT !.cache = MapSet(@, key, [entry[1] EXCEPT !.expiresAt = @ + 1])],
          ret |-> TRUE, branch |-> "hit"]

\* has(key)
CacheHas(c, t, key) ==
    LET entry == MapGet(c.cache, key) IN
    IF ~IsDefined(entry)
    THEN [c |-> c, ret |-> FALSE, branch |-> "miss"]
    ELSE IF IsExpired(t, entry[1])
    THEN [c |-> CacheDelete(c, key), ret |-> FALSE, branch |-> "expired"]
    ELSE [c |-> c, ret |-> TRUE, branch |-> "hit"]

\* the loop of evictLeastRecentlyUsed over accessOrder.entries()
RECURSIVE EvictScan(_, _, _, _)
EvictScan(order, i, lruKey, lruAccess) ==
    IF i > Len(order) THEN lruKey
    ELSE IF order[i].val < lruAccess
    THEN EvictScan(order, i + 1, Some(order[i].key), order[i].val)
    ELSE EvictScan(order, i + 1, lruKey, lruAccess)

EvictLeastRecentlyUsedMutant(c) ==
    IF Len(c.accessOrder) = 0 THEN c
    ELSE CacheDelete(c, c.accessOrder[Len(c.accessOrder)].key)

\* evictLeastRecentlyUsed()
EvictLeastRecentlyUsed(c) ==
    IF Len(c.accessOrder) = 0 THEN c
    ELSE LET lruKey == EvictScan(c.accessOrder, 1, Undefined, Infinity) IN
         IF TruthyString(lruKey) THEN CacheDelete(c, lruKey[1]) ELSE c

\* the condition guarding the eviction in MemoryCacheService.set
MemoryMustEvict(c, max, key) ==
    /\ TruthyNumber(max)
    /\ Len(c.cache) >= max[1]
    /\ ~MapHas(c.cache, key)

\* the condition guarding the eviction in SimpleCache.set
SimpleMustEvict(c, max, key) ==
    /\ Len(c.cache) >= max[1]
    /\ ~MapHas(c.cache, key)

MustEvictMutant(c, kind, max, key) == TruthyNumber(max) /\ Len(c.cache) >= max[1]

MustEvict(c, kind, max, key) ==
    IF kind = "memory" THEN MemoryMustEvict(c, max, key)
    ELSE SimpleMustEvict(c, max, key)

\* set(key, value, ttl)
CacheSet(c, kind, max, t, key, value, ttl) ==
    LET entry == [value |-> value, expiresAt |-> t + ttl, createdAt |-> t]
        evict == MustEvict(c, kind, max, key)
        c1 == IF evict THEN EvictLeastRecentlyUsed(c) ELSE c
        c2 == [c1 EXCEPT !.cache = MapSet(@, key, entry)]
    IN [c |-> Touch(c2, key),
        branch |-> IF evict THEN "evict"
                   ELSE IF MapHas(c.cache, key) THEN "overwrite" ELSE "insert"]

CacheClearMutant(c) == CacheObject(<<>>, <<>>, c.accessCounter)

\* clear()
CacheClear(c) == CacheObject(<<>>, <<>>, 0)

RECURSIVE DeleteAll(_, _)
DeleteAll(c, keys) ==
    IF keys = <<>> THEN c ELSE DeleteAll(CacheDelete(c, Head(keys)), Tail(keys))

CacheCleanupExpiredMutant(c, t) ==
    LET expired == SelectSeq(c.cache, LAMBDA e : t >= e.val.expiresAt)
        expiredKeys == [i \in 1..Len(expired) |-> expired[i].key]
    IN [c |-> DeleteAll(c, expiredKeys), ret |-> Len(expiredKeys)]

\* cleanupExpired()
CacheCleanupExpired(c, t) ==
    LET expired == SelectSeq(c.cache, LAMBDA e : IsExpired(t, e.val))
        expiredKeys == [i \in 1..Len(expired) |-> expired[i].key]
    IN [c |-> DeleteAll(c, expiredKeys), ret |-> Len(expiredKeys)]

----------------------------------------------------------------------------
(* Inputs of the cache operations *)

\* "", "a", "b"
CacheKeys == {EmptyString, <<97>>, <<98>>}
\* what a set writes: a value that lives for 0 ms, another that lives for 1 ms
CacheWrites == {[value |-> 1, ttl |-> 0], [value |-> 2, ttl |-> 1]}

MaxSizes == {Some(n) : n \in 0..MaxN}

NoCall == [op |-> "new", key |-> Undefined, ret |-> Undefined, branch |-> ""]

Call(op, key, ret, branch) ==
    [op |-> op, key |-> key, ret |-> ret, branch |-> branch]

NoScript == [keys |-> <<>>, ops |-> <<>>]

\* the cache is used directly, without an engine
NoEngine == [kind |-> "none", cacheService |-> FALSE, fault |-> "none"]

Store(c) ==
    /\ cache' = c.cache
    /\ accessOrder' = c.accessOrder
    /\ accessCounter' = c.accessCounter

----------------------------------------------------------------------------
(* The cache on its own: each call runs to completion *)

InitCache ==
    /\ cache = <<>>
    /\ accessOrder = <<>>
    /\ accessCounter = 0
    /\ impl \in {"memory", "simple"}
    /\ maxSize \in MaxSizes
    /\ now = 0
    /\ engine = NoEngine
    /\ last = NoCall
    /\ script = NoScript

DoGet(key) ==
    /\ LET r == CacheGet(This, now, key) IN
        /\ Store(r.c)
        /\ last' = Call("get", Some(key), r.ret, r.branch)
    /\ UNCHANGED <<maxSize, impl, now, engine>>

DoSet(key, value, ttl) ==
    /\ LET r == CacheSet(This, impl, maxSize, now, key, value, ttl) IN
        /\ Store(r.c)
        /\ last' = Call("set", Some(key), Undefined, r.branch)
    /\ UNCHANGED <<maxSize, impl, now, engine>>

Get(key) ==
    /\ accessCounter < MaxAccess
    /\ DoGet(key)
    /\ UNCHANGED script

Set(key, value, ttl) ==
    /\ accessCounter < MaxAccess
    /\ DoSet(key, value, ttl)
    /\ UNCHANGED script

Delete(key) ==
    /\ Store(CacheDelete(This, key))
    /\ last' = Call("delete", Some(key), Undefined, "")
    /\ UNCHANGED <<maxSize, impl, now, engine, script>>

Clear ==
    /\ Store(CacheClear(This))
    /\ last' = Call("clear", Undefined, Undefined, "")
    /\ UNCHANGED <<maxSize, impl, now, engine, script>>

Has(key) ==
    /\ LET r == CacheHas(This, now, key) IN
        /\ Store(r.c)
        /\ last' = Call("has", Some(key), Some(r.ret), r.branch)
    /\ UNCHANGED <<maxSize, impl, now, engine, script>>

CleanupExpired ==
    /\ LET r == CacheCleanupExpired(This, now) IN
        /\ Store(r.c)
        /\ last' = Call("cleanupExpired", Undefined, Some(r.ret), "")
    /\ UNCHANGED <<maxSize, impl, now, engine, script>>

\* time passes between two calls
Tick ==
    /\ now < MaxTime
    /\ now' = now + 1
    /\ last' = Call("tick", Undefined, Undefined, "")
    /\ UNCHANGED <<cache, accessOrder, accessCounter, maxSize, impl, engine, script>>

NextCache ==
    \/ \E key \in CacheKeys : Get(key)
    \/ \E key \in CacheKeys, w \in CacheWrites : Set(key, w.value, w.ttl)
    \/ \E key \in CacheKeys : Delete(key)
    \/ Clear
    \/ \E key \in CacheKeys : Has(key)
    \/ CleanupExpired
    \/ Tick

Spec == InitCache /\ [][NextCache]_vars

----------------------------------------------------------------------------
(* A scripted caller of the cache: set k1..kN, get k1, set one more key *)

\* "", "a", "b", ...: one key more than the largest capacity
LruKeys == {EmptyString} \cup {<<96 + i>> : i \in 1..MaxN}

\* a time to live that outlasts the run
LongTtl == MaxTime + 1

LruScript(ks) ==
    LET n == Len(ks) - 1 IN
    [i \in 1..(n + 2) |->
        IF i <= n THEN [op |-> "set", key |-> ks[i]]
        ELSE IF i = n + 1 THEN [op |-> "get", key |-> ks[1]]
        ELSE [op |-> "set", key |-> ks[n + 1]]]

Injective(ks) == \A i, j \in 1..Len(ks) : i /= j => ks[i] /= ks[j]

InitLru ==
    /\ cache = <<>>
    /\ accessOrder = <<>>
    /\ accessCounter = 0
    /\ impl \in {"memory", "simple"}
    /\ now = 0
    /\ engine = NoEngine
    /\ last = NoCall
    /\ \E n \in 2..MaxN :
        /\ maxSize = Some(n)
        /\ \E ks \in [1..(n + 1) -> LruKeys] :
            /\ Injective(ks)
            /\ script = [keys |-> ks, ops |-> LruScript(ks)]

RunSet ==
    /\ script.ops /= <<>>
    /\ Head(script.ops).op = "set"
    /\ \E w \in CacheWrites : DoSet(Head(script.ops).key, w.value, LongTtl)
    /\ script' = [script EXCEPT !.ops = Tail(@)]

RunGet ==
    /\ script.ops /= <<>>
    /\ Head(script.ops).op = "get"
    /\ DoGet(Head(script.ops).key)
    /\ script' = [script EXCEPT !.ops = Tail(@)]

NextLru == RunSet \/ RunGet \/ Tick

SpecLru == InitLru /\ [][NextLru]_vars

----------------------------------------------------------------------------
(* Strings, JSON.stringify and the 32-bit rolling hash of the fingerprint *)

\* Number.prototype.toString() of a non-negative integer
RECURSIVE DecimalDigits(_)
DecimalDigits(n) ==
    IF n < 10 THEN <<48 + n>> ELSE DecimalDigits(n \div 10) \o <<48 + (n % 10)>>

\* the JSON text of an integer
NumberText(n) == IF n < 0 THEN <<45>> \o DecimalDigits(-n) ELSE DecimalDigits(n)

\* the JSON text of a boolean: true, false
BooleanText(b) == IF b THEN <<116, 114, 117, 101>> ELSE <<102, 97, 108, 115, 101>>

\* the JSON text of an optional number or boolean; undefined has none
OptNumberText(o) == IF IsDefined(o) THEN Some(NumberText(o[1])) ELSE Undefined
OptBooleanText(o) == IF IsDefined(o) THEN Some(BooleanText(o[1])) ELSE Undefined

\* property names, as they are written in the source
NamePage == <<112, 97, 103, 101>>
NamePageSize == <<112, 97, 103, 101, 83, 105, 122, 101>>
NameMaxPageSize == <<109, 97, 120, 80, 97, 103, 101, 83, 105, 122, 101>>
NameEnableCache == <<101, 110, 97, 98, 108, 101, 67, 97, 99, 104, 101>>
NameCacheTtl == <<99, 97, 99, 104, 101, 84, 116, 108>>
NameNoPagination == <<110, 111, 80, 97, 103, 105, 110, 97, 116, 105, 111, 110>>

\* "pagination:"
KeyPrefix == <<112, 97, 103, 105, 110, 97, 116, 105, 111, 110, 58>>

\* a < b in the code-unit order Array.prototype.sort uses for strings
RECURSIVE StringLess(_, _)
StringLess(a, b) ==
    IF b = <<>> THEN FALSE
    ELSE IF a = <<>> THEN TRUE
    ELSE IF Head(a) /= Head(b) THEN Head(a) < Head(b)
    ELSE StringLess(Tail(a), Tail(b))

\* Object.keys(obj).sort(): insertion sort of the property names
RECURSIVE InsertSorted(_, _)
InsertSorted(sorted, name) ==
    IF sorted = <<>> THEN <<name>>
    ELSE IF StringLess(name, Head(sorted)) THEN <<name>> \o sorted
    ELSE <<Head(sorted)>> \o InsertSorted(Tail(sorted), name)

RECURSIVE SortedKeys(_)
SortedKeys(obj) ==
    IF obj = <<>> THEN <<>>
    ELSE InsertSorted(SortedKeys(Tail(obj)), Head(obj).key)

\* JSON.stringify(data) of an array of integers
RECURSIVE JoinNumbers(_)
JoinNumbers(data) ==
    IF data = <<>> THEN <<>>
    ELSE IF Len(data) = 1 THEN NumberText(data[1])
    ELSE NumberText(Head(data)) \o <<44>> \o JoinNumbers(Tail(data))

StringifyArray(data) == <<91>> \o JoinNumbers(data) \o <<93>>

\* JSON.stringify(obj, names): the listed properties whose value is defined,
\* in the order of the list; obj is a Map from property name to optional text
RECURSIVE JoinMembers(_, _, _)
JoinMembers(obj, names, first) ==
    IF names = <<>> THEN <<>>
    ELSE LET text == MapGet(obj, Head(names))[1] IN
         IF ~IsDefined(text) THEN JoinMembers(obj, Tail(names), first)
         ELSE (IF first THEN <<>> ELSE <<44>>)
              \o <<34>> \o Head(names) \o <<34, 58>> \o text[1]
              \o JoinMembers(obj, Tail(names), FALSE)

StringifyObject(obj, names) == <<123>> \o JoinMembers(obj, names, TRUE) \o <<125>>

\* a 32-bit integer as two 16-bit halves <<high, low>>
Half == 65536

\* hash = (hash << 5) - hash + char; hash = hash & hash
HashStep(hash, char) ==
    LET low == 31 * hash[2] + char
        high == 31 * hash[1] + (low \div Half)
    IN <<high % Half, low % Half>>

\* for (i = from; i <= to; i++) hash = HashStep(hash, str[i]), the range
\* split in two, the left half evaluated first, so that the evaluation never
\* nests deeper than log(Len(str)); a half is never negative
RECURSIVE HashLoop(_, _, _, _)
HashLoop(str, from, to, hash) ==
    IF from > to THEN hash
    ELSE IF from = to THEN HashStep(hash, str[from])
    ELSE LET middle == (from + to) \div 2
             left == HashLoop(str, from, middle, hash)
         IN IF left[1] >= 0 THEN HashLoop(str, middle + 1, to, left) ELSE left

\* Math.abs of the signed 32-bit value
MathAbs(hash) ==
    IF hash[1] < Half \div 2 THEN hash
    ELSE IF hash[2] = 0 THEN <<Half - hash[1], 0>>
    ELSE <<Half - 1 - hash[1], Half - hash[2]>>

\* one digit of toString(36): 0-9, a-z
Digit36(d) == IF d < 10 THEN 48 + d ELSE 87 + d

\* Number.prototype.toString(36) of a non-negative value
RECURSIVE ToString36(_)
ToString36(n) ==
    LET rest == (n[1] % 36) * Half + n[2]
        quotient == <<n[1] \div 36, rest \div 36>>
    IN IF quotient = <<0, 0>> THEN <<Digit36(rest % 36)>>
       ELSE ToString36(quotient) \o <<Digit36(rest % 36)>>

\* hashArray(data)
HashArray(data) == ToString36(MathAbs(HashLoop(StringifyArray(data), 1, Len(StringifyArray(data)), <<0, 0>>)))

\* hashObject(obj)
HashObject(obj) ==
    ToString36(MathAbs(HashLoop(StringifyObject(obj, SortedKeys(obj)), 1,
                                Len(StringifyObject(obj, SortedKeys(obj))), <<0, 0>>)))

GenerateCacheKeyMutant(data, obj) == KeyPrefix \o HashArray(data)

\* generateCacheKey(data, config): `pagination:${dataHash}:${configHash}`
GenerateCacheKey(data, obj) ==
    KeyPrefix \o HashArray(data) \o <<58>> \o HashObject(obj)

Property(name, text) == [key |-> name, val |-> text]

----------------------------------------------------------------------------
(* The bounds calculator *)

\* Math.ceil(a / b) for a > 0, b > 0
MathCeilDiv(a, b) == (a + b - 1) \div b

MathMinMutant(a, b) == IF a < b THEN b ELSE a

MathMin(a, b) == IF a < b THEN a ELSE b

CalculateTotalPagesMutant(totalItems, pageSize) ==
    IF totalItems <= 0 \/ pageSize <= 0 THEN 0 ELSE totalItems \div pageSize

CalculateTotalPages(totalItems, pageSize) ==
    IF totalItems <= 0 \/ pageSize <= 0 THEN 0 ELSE MathCeilDiv(totalItems, pageSize)

CalculateStartIndexMutant(page, pageSize) ==
    IF page <= 0 \/ pageSize <= 0 THEN 0 ELSE page * pageSize

CalculateStartIndex(page, pageSize) ==
    IF page <= 0 \/ pageSize <= 0 THEN 0 ELSE (page - 1) * pageSize

CalculateEndIndexMutant(page, pageSize, totalItems) ==
    CalculateStartIndex(page, pageSize) + pageSize

CalculateEndIndex(page, pageSize, totalItems) ==
    LET startIndex == CalculateStartIndex(page, pageSize)
        endIndex == startIndex + pageSize
    IN MathMin(endIndex, totalItems)

IsValidPageMutant(page, totalPages) == page >= 1 /\ page < totalPages

IsValidPage(page, totalPages) == page >= 1 /\ page <= totalPages

\* Array.prototype.slice(start, end)
Slice(data, start, end) ==
    LET len == Len(data)
        from == IF start < 0 THEN (IF len + start < 0 THEN 0 ELSE len + start)
                ELSE MathMin(start, len)
        to == IF end < 0 THEN (IF len + end < 0 THEN 0 ELSE len + end)
              ELSE MathMin(end, len)
    IN IF from >= to THEN <<>> ELSE SubSeq(data, from + 1, to)

----------------------------------------------------------------------------
(* The pagination engines: CorePaginator and PaginatorService *)

DEFAULT_PAGE_SIZE == 10
DEFAULT_MAX_PAGE_SIZE == 100
DEFAULT_CACHE_TTL == 300000

\* a || b on an optional number
OrElse(o, default) == IF TruthyNumber(o) THEN o[1] ELSE default

\* JS truthiness of a boolean | undefined
TruthyBoolean(o) == IsDefined(o) /\ o[1]

Ok(result) == [kind |-> "ok", result |-> Some(result)]
Fail(kind) == [kind |-> kind, result |-> Undefined]

NormalizeConfigMutant(config) ==
    [page |-> Some(OrElse(config.page, 1)),
     pageSize |-> Some(OrElse(config.pageSize, DEFAULT_MAX_PAGE_SIZE)),
     maxPageSize |-> config.maxPageSize,
     enableCache |-> config.enableCache,
     cacheTtl |-> config.cacheTtl]

\* normalizeConfig(config)
NormalizeConfig(config) ==
    [page |-> Some(OrElse(config.page, 1)),
     pageSize |-> Some(OrElse(config.pageSize, DEFAULT_PAGE_SIZE)),
     maxPageSize |-> config.maxPageSize,
     enableCache |-> config.enableCache,
     cacheTtl |-> config.cacheTtl]

\* validateConfig(config): the kind of the exception thrown, or "ok"
ValidateConfig(config) ==
    IF ~IsDefined(config.page) \/ config.page[1] < 1 THEN "InvalidConfig"
    ELSE IF ~IsDefined(config.pageSize) \/ config.pageSize[1] < 1 THEN "InvalidPageSize"
    ELSE IF config.pageSize[1] > OrElse(config.maxPageSize, DEFAULT_MAX_PAGE_SIZE)
    THEN "InvalidPageSize"
    ELSE IF IsDefined(config.cacheTtl) /\ config.cacheTtl[1] < 0 THEN "InvalidConfig"
    ELSE "ok"

\* the arrays 1..n
Iota(n) == [i \in 1..n |-> i]

Config(page, pageSize, maxPageSize, enableCache, cacheTtl, noPagination) ==
    [page |-> page, pageSize |-> pageSize, maxPageSize |-> maxPageSize,
     enableCache |-> enableCache, cacheTtl |-> cacheTtl, noPagination |-> noPagination]

NewCall(data, config) == [data |-> data, config |-> config]

\* valid cached calls that share or differ in data, page and the other fields
Cached(page, pageSize, maxPageSize, cacheTtl) ==
    Config(page, pageSize, maxPageSize, Some(TRUE), cacheTtl, Undefined)
CachedAll(cacheTtl) ==
    Config(Undefined, Undefined, Undefined, Some(TRUE), cacheTtl, Some(TRUE))
ScriptCalls ==
    {NewCall(Iota(2), Cached(Some(1), Some(1), Undefined, Undefined)),
     NewCall(Iota(2), Cached(Some(1), Some(1), Undefined, Some(1))),
     NewCall(Iota(2), Cached(Some(1), Some(1), Some(2), Undefined)),
     NewCall(Iota(2), Cached(Some(2), Some(1), Undefined, Undefined)),
     NewCall(Iota(2), CachedAll(Undefined)),
     NewCall(Iota(2), CachedAll(Some(1)))}

\* the object CorePaginator.paginateNormal fingerprints: the normalized config
CoreKeyObject(config) ==
    <<Property(NamePage, OptNumberText(config.page)),
      Property(NamePageSize, OptNumberText(config.pageSize)),
      Property(NameMaxPageSize, OptNumberText(config.maxPageSize)),
      Property(NameEnableCache, OptBooleanText(config.enableCache)),
      Property(NameCacheTtl, OptNumberText(config.cacheTtl))>>

\* the object PaginatorService.generateCacheKey fingerprints: { page, pageSize }
ServiceKeyObject(config) ==
    <<Property(NamePage, OptNumberText(config.page)),
      Property(NamePageSize, OptNumberText(config.pageSize))>>

\* the object returnAllData fingerprints: { noPagination: true }
ReturnAllKeyObject == <<Property(NameNoPagination, Some(BooleanText(TRUE)))>>

\* the keys of the scripted calls, computed once
ScriptKeys ==
    LET inputs ==
            {<<call.data, CoreKeyObject(NormalizeConfig(call.config))>> : call \in ScriptCalls}
            \cup {<<call.data, ServiceKeyObject(call.config)>> : call \in ScriptCalls}
            \cup {<<call.data, ReturnAllKeyObject>> : call \in ScriptCalls}
    IN [input \in inputs |-> GenerateCacheKey(input[1], input[2])]

\* two collections whose JSON texts, [10,1489] and [878,2], have the same
\* 32-bit rolling hash
CollidingData == {<<10, 1489>>, <<878, 2>>}

\* cached calls on the two collections: a page and everything at once of
\* either, the next page and the same page with a short time to live of one
CollidingCalls ==
    {NewCall(data, config) :
        data \in CollidingData,
        config \in {Cached(Some(1), Some(1), Undefined, Undefined), CachedAll(Undefined)}}
    \cup {NewCall(<<10, 1489>>, Cached(Some(2), Some(1), Undefined, Undefined)),
          NewCall(<<10, 1489>>, Cached(Some(1), Some(1), Undefined, Some(1)))}

\* generateCacheKey(data, obj), looked up where it is already computed
CacheKey(data, obj) ==
    IF <<data, obj>> \in DOMAIN ScriptKeys THEN ScriptKeys[<<data, obj>>]
    ELSE GenerateCacheKey(data, obj)

\* CorePaginator.generateCacheKey(data, config) on the normalized config
CoreCacheKey(data, config) == CacheKey(data, CoreKeyObject(config))

\* PaginatorService.generateCacheKey(data, config)
ServiceCacheKey(data, config) == CacheKey(data, ServiceKeyObject(config))

\* generateCacheKey(data, { noPagination: true })
ReturnAllCacheKey(data) == CacheKey(data, ReturnAllKeyObject)

CachingMutant(config) == engine.cacheService

\* config.enableCache && this.cacheService
Caching(config) == TruthyBoolean(config.enableCache) /\ engine.cacheService

\* the cache service handed to the engine is any implementation of the
\* CacheService interface: its get or its set may reject
Faults == {"none", "get", "set", "both"}
GetFails == engine.fault \in {"get", "both"}
SetFails == engine.fault \in {"set", "both"}

LookupMutant(c, config, cacheKey) == [c |-> c, ret |-> Undefined, branch |-> "off"]

\* the cache lookup at the head of paginateNormal and returnAllData
Lookup(c, config, cacheKey) ==
    IF Caching(config) /\ GetFails THEN [c |-> c, ret |-> Undefined, branch |-> "throw"]
    ELSE IF Caching(config) THEN CacheGet(c, now, cacheKey)
    ELSE [c |-> c, ret |-> Undefined, branch |-> "off"]

\* the cache store at the end of paginateNormal and returnAllData
StoreResult(c, config, cacheKey, result) ==
    IF Caching(config) /\ SetFails THEN c
    ELSE IF Caching(config)
    THEN CacheSet(c, impl, maxSize, now, cacheKey, result,
                  OrElse(config.cacheTtl, DEFAULT_CACHE_TTL)).c
    ELSE c

FinishMutant(c, config, cacheKey, result) ==
    IF Caching(config) /\ SetFails THEN [c |-> c, out |-> Fail("CacheFailure")]
    ELSE [c |-> StoreResult(c, config, cacheKey, result), out |-> Ok(result)]

\* try { await this.cacheService.set(...) } catch { console.warn(...) }
\* return result
Finish(c, config, cacheKey, result) ==
    [c |-> StoreResult(c, config, cacheKey, result), out |-> Ok(result)]

\* paginateNormal after validateConfig; PaginatorService.paginate likewise
PaginateChecked(c, data, config, cacheKey) ==
    LET page == config.page[1]
        pageSize == config.pageSize[1]
        totalItems == Len(data)
        found == Lookup(c, config, cacheKey)
        totalPages == CalculateTotalPages(totalItems, pageSize)
        startIndex == CalculateStartIndex(page, pageSize)
        endIndex == CalculateEndIndex(page, pageSize, totalItems)
        result ==
            [data |-> Slice(data, startIndex, endIndex),
             meta |-> [currentPage |-> page,
                       pageSize |-> pageSize,
                       totalItems |-> totalItems,
                       totalPages |-> totalPages,
                       hasPrevious |-> page > 1,
                       hasNext |-> page < totalPages,
                       firstItemIndex |-> IF totalItems > 0 THEN startIndex + 1 ELSE 0,
                       lastItemIndex |-> IF totalItems > 0 THEN endIndex ELSE 0],
             fromCache |-> FALSE]
    IN IF found.branch = "throw"
       THEN [c |-> c, out |-> Fail("CacheFailure")]
       ELSE IF IsDefined(found.ret)
       THEN [c |-> found.c, out |-> Ok([found.ret[1] EXCEPT !.fromCache = TRUE])]
       ELSE IF totalPages > 0 /\ ~IsValidPage(page, totalPages)
       THEN [c |-> found.c, out |-> Fail("PageNotFound")]
       ELSE Finish(found.c, config, cacheKey, result)

\* CorePaginator.paginateNormal(data, config)
PaginateNormal(c, data, config) ==
    IF ValidateConfig(config) /= "ok"
    THEN [c |-> c, out |-> Fail(ValidateConfig(config))]
    ELSE PaginateChecked(c, data, config, CoreCacheKey(data, config))

\* CorePaginator.returnAllData(data, config)
ReturnAllData(c, data, config) ==
    LET cacheKey == ReturnAllCacheKey(data)
        found == Lookup(c, config, cacheKey)
        result ==
            [data |-> data,
             meta |-> [currentPage |-> 1,
                       pageSize |-> Len(data),
                       totalItems |-> Len(data),
                       totalPages |-> 1,
                       hasPrevious |-> FALSE,
                       hasNext |-> FALSE,
                       firstItemIndex |-> IF Len(data) > 0 THEN 1 ELSE 0,
                       lastItemIndex |-> Len(data)],
             fromCache |-> FALSE]
    IN IF found.branch = "throw"
       THEN [c |-> c, out |-> Fail("CacheFailure")]
       ELSE IF IsDefined(found.ret)
       THEN [c |-> found.c, out |-> Ok([found.ret[1] EXCEPT !.fromCache = TRUE])]
       ELSE Finish(found.c, config, cacheKey, result)

CorePaginateMutant(c, data, config) ==
    IF IsDefined(config.pageSize) /\ config.pageSize[1] <= 0
    THEN [c |-> c, out |-> Fail("InvalidPageSize")]
    ELSE IF IsDefined(config.page) /\ config.page[1] <= 0
    THEN [c |-> c, out |-> Fail("InvalidConfig")]
    ELSE IF TruthyBoolean(config.noPagination) THEN ReturnAllData(c, data, config)
    ELSE PaginateNormal(c, data, NormalizeConfig(config))

\* CorePaginator.paginate(data, config)
CorePaginate(c, data, config) ==
    IF TruthyBoolean(config.noPagination) THEN ReturnAllData(c, data, config)
    ELSE IF IsDefined(config.pageSize) /\ config.pageSize[1] <= 0
    THEN [c |-> c, out |-> Fail("InvalidPageSize")]
    ELSE IF IsDefined(config.page) /\ config.page[1] <= 0
    THEN [c |-> c, out |-> Fail("InvalidConfig")]
    ELSE PaginateNormal(c, data, NormalizeConfig(config))

ServicePaginateMutant(c, data, config) ==
    LET found == Lookup(c, config, ServiceCacheKey(data, config))
    IN IF ValidateConfig(config) /= "ok"
       THEN [c |-> found.c, out |-> Fail(ValidateConfig(config))]
       ELSE PaginateChecked(c, data, config, ServiceCacheKey(data, config))

\* PaginatorService.paginate(data, config)
ServicePaginate(c, data, config) ==
    IF ValidateConfig(config) /= "ok"
    THEN [c |-> c, out |-> Fail(ValidateConfig(config))]
    ELSE PaginateChecked(c, data, config, ServiceCacheKey(data, config))

EnginePaginate(c, data, config) ==
    IF engine.kind = "core" THEN CorePaginate(c, data, config)
    ELSE ServicePaginate(c, data, config)

----------------------------------------------------------------------------
(* Callers of the engines *)

DataSets == {Iota(n) : n \in 0..MaxLen}

Optional(S) == {Undefined} \cup {Some(x) : x \in S}

\* one call per shape of configuration, valid and invalid
CallConfigs ==
    {Config(page, pageSize, maxPageSize, enableCache, cacheTtl, noPagination) :
        page \in Optional({-1, 0, 1, 2}),
        pageSize \in Optional({-1, 0, 1, 2, DEFAULT_MAX_PAGE_SIZE, DEFAULT_MAX_PAGE_SIZE + 1}),
        maxPageSize \in Optional({-1, 0, 1}),
        enableCache \in Optional(BOOLEAN),
        cacheTtl \in Optional({-1, 0, 1}),
        noPagination \in Optional({TRUE})}

\* the sequences of n scripted calls
RECURSIVE Scripts(_)
Scripts(n) ==
    IF n = 0 THEN {<<>>}
    ELSE {Append(calls, call) : calls \in Scripts(n - 1), call \in ScriptCalls}

PageSizes == {1, 2, 3, DEFAULT_MAX_PAGE_SIZE}

\* createConfig({ page, pageSize }) with the cache switched on or off
CreateConfig(page, pageSize, enableCache) ==
    Config(Some(page), Some(pageSize), Some(DEFAULT_MAX_PAGE_SIZE),
           Some(enableCache), Some(DEFAULT_CACHE_TTL), Undefined)

\* the calls of getAllPages(data, pageSize)
RECURSIVE PagesUpTo(_, _, _, _)
PagesUpTo(totalPages, data, pageSize, enableCache) ==
    IF totalPages < 1 THEN <<>>
    ELSE Append(PagesUpTo(totalPages - 1, data, pageSize, enableCache),
                NewCall(data, CreateConfig(totalPages, pageSize, enableCache)))

GetAllPagesMutant(data, pageSize, enableCache) ==
    PagesUpTo(Len(data) \div pageSize, data, pageSize, enableCache)

GetAllPages(data, pageSize, enableCache) ==
    PagesUpTo(CalculateTotalPages(Len(data), pageSize), data, pageSize, enableCache)

\* createPaginator wires CorePaginator to SimpleCache, PaginationModule wires
\* PaginatorService to MemoryCacheService
NewEngine(kind, cacheService, max) ==
    /\ engine = [kind |-> kind, cacheService |-> cacheService, fault |-> "none"]
    /\ impl = (IF kind = "core" THEN "simple" ELSE "memory")
    /\ maxSize = max
    /\ cache = <<>>
    /\ accessOrder = <<>>
    /\ accessCounter = 0
    /\ now = 0
    /\ last = NoCall

EngineKinds == {"core", "service"}

\* the next call of the script runs to completion
Paginate ==
    /\ script.calls /= <<>>
    /\ LET call == Head(script.calls)
           r == EnginePaginate(This, call.data, call.config)
           record == [op |-> "paginate", data |-> call.data, config |-> call.config,
                      out |-> r.out, at |-> now]
       IN /\ Store(r.c)
          /\ last' = record
          /\ script' = [script EXCEPT !.calls = Tail(@), !.done = Append(@, record)]
    /\ UNCHANGED <<maxSize, impl, now, engine>>

\* Date.now() advances between two calls
Elapse ==
    /\ script.done /= <<>>
    /\ script.calls /= <<>>
    /\ now < MaxTime
    /\ now' = now + 1
    /\ UNCHANGED <<cache, accessOrder, accessCounter, maxSize, impl, engine, last, script>>

\* one call on a new engine, made twice
InitPaginate ==
    /\ \E kind \in EngineKinds, cacheService \in BOOLEAN :
          NewEngine(kind, cacheService, Some(MaxN))
    /\ \E data \in DataSets, config \in CallConfigs :
          script = [calls |-> <<NewCall(data, config), NewCall(data, config)>>, done |-> <<>>]

SpecPaginate == InitPaginate /\ [][Paginate]_vars

\* every page of a collection, in page order
InitPages ==
    /\ \E kind \in EngineKinds, cacheService \in BOOLEAN :
          NewEngine(kind, cacheService, Some(MaxN))
    /\ \E data \in DataSets, pageSize \in PageSizes, enableCache \in BOOLEAN :
          script = [calls |-> GetAllPages(data, pageSize, enableCache), done |-> <<>>]

SpecPages == InitPages /\ [][Paginate]_vars

\* up to MaxCalls cached calls on one engine, time passing in between
InitEngine ==
    /\ \E kind \in EngineKinds, max \in {Some(1), Some(MaxN)} : NewEngine(kind, TRUE, max)
    /\ \E n \in 1..MaxCalls : \E calls \in Scripts(n) :
          script = [calls |-> calls, done |-> <<>>]

NextEngine == Paginate \/ Elapse

SpecEngine == InitEngine /\ [][NextEngine]_vars

\* calls that fail validation, with the data, page and pageSize of a valid
\* scripted call where the rule allows it
RejectedCalls ==
    {NewCall(Iota(2), Cached(Some(1), Some(1), Undefined, Some(-1))),
     NewCall(Iota(2), Cached(Some(1), Some(1), Some(-1), Undefined)),
     NewCall(Iota(2), Cached(Some(1), Some(0), Undefined, Undefined)),
     NewCall(Iota(2), Cached(Some(0), Some(1), Undefined, Undefined)),
     NewCall(Iota(2), Cached(Some(1), Some(DEFAULT_MAX_PAGE_SIZE + 1), Undefined, Undefined))}

\* a valid cached call, then a rejected one, time passing in between
InitReject ==
    /\ \E kind \in EngineKinds, max \in {Some(1), Some(MaxN)} : NewEngine(kind, TRUE, max)
    /\ \E first \in ScriptCalls, second \in RejectedCalls :
          script = [calls |-> <<first, second>>, done |-> <<>>]

SpecReject == InitReject /\ [][NextEngine]_vars

\* the cache service starts or stops rejecting between two calls
Break ==
    /\ script.calls /= <<>>
    /\ \E fault \in Faults \ {engine.fault} : engine' = [engine EXCEPT !.fault = fault]
    /\ UNCHANGED <<cache, accessOrder, accessCounter, maxSize, impl, now, last, script>>

\* two cached calls on an engine whose cache service may reject, time passing
\* in between
InitFaulty ==
    /\ \E kind \in EngineKinds : NewEngine(kind, TRUE, Some(MaxN))
    /\ \E calls \in Scripts(2) : script = [calls |-> calls, done |-> <<>>]

NextFaulty == Paginate \/ Elapse \/ Break

SpecFaulty == InitFaulty /\ [][NextFaulty]_vars

----------------------------------------------------------------------------
(* Several set calls in flight on one cache *)

\* "a", "b", ...: one key more than the largest capacity
ConcurrentKeys == {<<96 + i>> : i \in 1..(MaxN + 1)}

InsertMutant(c, key, entry) ==
    Touch([c EXCEPT !.cache = Append(@, [key |-> key, val |-> entry])], key)

\* this.cache.set(key, entry); this.accessOrder.set(key, ++this.accessCounter)
Insert(c, key, entry) == Touch([c EXCEPT !.cache = MapSet(@, key, entry)], key)

\* evictLeastRecentlyUsed reaches its `await this.delete(lruKey)`
EvictAwaitsDelete(c) ==
    /\ Len(c.accessOrder) /= 0
    /\ TruthyString(EvictScan(c.accessOrder, 1, Undefined, Infinity))

\* set(key, value, ttl) runs up to its first await: with no eviction due it
\* completes; otherwise evictLeastRecentlyUsed runs up to its own await, the
\* delete it calls included, and the rest of set waits in the microtask queue
StartSet ==
    /\ script.calls /= <<>>
    /\ LET key == Head(script.calls)
           entry == [value |-> 1, expiresAt |-> now + LongTtl, createdAt |-> now]
       IN IF MustEvict(This, impl, maxSize, key)
          THEN /\ Store(EvictLeastRecentlyUsed(This))
               /\ script' = [calls |-> Tail(script.calls),
                             pending |-> Append(script.pending,
                                 [key |-> key, entry |-> entry,
                                  at |-> IF EvictAwaitsDelete(This) THEN "evict" ELSE "set"])]
               /\ UNCHANGED last
          ELSE /\ Store(Insert(This, key, entry))
               /\ script' = [script EXCEPT !.calls = Tail(@)]
               /\ last' = Call("set", Some(key), Undefined, "insert")
    /\ UNCHANGED <<maxSize, impl, now, engine>>

\* the microtask at the head of the queue resumes evictLeastRecentlyUsed
\* after its await; it returns, which queues the continuation of set
ResumeEvict ==
    /\ script.pending /= <<>>
    /\ Head(script.pending).at = "evict"
    /\ script' = [script EXCEPT !.pending =
                      Append(Tail(@), [Head(@) EXCEPT !.at = "set"])]
    /\ UNCHANGED <<cache, accessOrder, accessCounter, maxSize, impl, now, engine, last>>

\* the microtask at the head of the queue resumes set after its await
ResumeSet ==
    /\ script.pending /= <<>>
    /\ Head(script.pending).at = "set"
    /\ Store(Insert(This, Head(script.pending).key, Head(script.pending).entry))
    /\ script' = [script EXCEPT !.pending = Tail(@)]
    /\ last' = Call("set", Some(Head(script.pending).key), Undefined, "evict")
    /\ UNCHANGED <<maxSize, impl, now, engine>>

RECURSIVE KeyScripts(_)
KeyScripts(n) ==
    IF n = 0 THEN {<<>>}
    ELSE {Append(ks, k) : ks \in KeyScripts(n - 1), k \in ConcurrentKeys}

\* a new cache of capacity 1..MaxN and the set calls its callers will make
InitConcurrent ==
    /\ cache = <<>>
    /\ accessOrder = <<>>
    /\ accessCounter = 0
    /\ impl \in {"memory", "simple"}
    /\ maxSize \in {Some(n) : n \in 1..MaxN}
    /\ now = 0
    /\ engine = NoEngine
    /\ last = NoCall
    /\ \E n \in 1..(MaxN + 1) : \E ks \in KeyScripts(n) :
          script = [calls |-> ks, pending |-> <<>>]

NextConcurrent == StartSet \/ ResumeEvict \/ ResumeSet

SpecConcurrent == InitConcurrent /\ [][NextConcurrent]_vars

----------------------------------------------------------------------------
(* The helpers of CorePaginator *)

\* a default parameter value stands in for an argument left undefined
Default(o, default) == IF IsDefined(o) THEN o[1] ELSE default

\* the config getAllData(data, enableCache = false, cacheTtl) hands to paginate
AllDataConfig(enableCache, cacheTtl) ==
    Config(Undefined, Undefined, Undefined, Some(Default(enableCache, FALSE)), cacheTtl,
           Some(TRUE))

\* getAllData(data, enableCache, cacheTtl)
GetAllData ==
    /\ engine.kind = "core"
    /\ script.helpers /= <<>>
    /\ Head(script.helpers).op = "getAllData"
    /\ LET call == Head(script.helpers)
           config == AllDataConfig(call.enableCache, call.cacheTtl)
           r == CorePaginate(This, call.data, config)
           record == [op |-> "getAllData", data |-> call.data, config |-> config,
                      out |-> r.out, at |-> now]
       IN /\ Store(r.c)
          /\ last' = record
          /\ script' = [script EXCEPT !.helpers = Tail(@), !.done = Append(@, record)]
    /\ UNCHANGED <<maxSize, impl, now, engine>>

\* configs that ask for everything, whatever page, pageSize, enableCache and
\* cacheTtl they carry
AllConfigs ==
    {config \in CallConfigs :
        config.noPagination = Some(TRUE) /\ config.maxPageSize = Undefined}

\* one paginate call in return-all mode and one getAllData call on the same
\* data, in either order
InitAll ==
    /\ \E cacheService \in BOOLEAN : NewEngine("core", cacheService, Some(MaxN))
    /\ \E data \in DataSets, config \in AllConfigs :
          \E enableCache \in Optional(BOOLEAN), cacheTtl \in Optional({1}) :
              script = [calls |-> <<NewCall(data, config)>>,
                        done |-> <<>>,
                        helpers |-> <<[op |-> "getAllData", data |-> data,
                                       enableCache |-> enableCache, cacheTtl |-> cacheTtl]>>]

NextAll == Paginate \/ GetAllData

SpecAll == InitAll /\ [][NextAll]_vars

\* maxItemsBeforePagination = 100
MaxItemsBeforePagination == 100

SmartConfigMutant(data, maxItemsBeforePagination, pageSize, page) ==
    Config(Some(Default(page, 1)), Some(Default(pageSize, DEFAULT_PAGE_SIZE)), Undefined,
           Some(FALSE), Undefined,
           Some(Len(data) < Default(maxItemsBeforePagination, MaxItemsBeforePagination)))

\* the config smartPaginate(data, maxItemsBeforePagination = 100,
\* pageSize = DEFAULT_PAGE_SIZE, page = 1) hands to paginate
SmartConfig(data, maxItemsBeforePagination, pageSize, page) ==
    Config(Some(Default(page, 1)), Some(Default(pageSize, DEFAULT_PAGE_SIZE)), Undefined,
           Some(FALSE), Undefined,
           Some(Len(data) <= Default(maxItemsBeforePagination, MaxItemsBeforePagination)))

\* smartPaginate(data, maxItemsBeforePagination, pageSize, page)
SmartPaginate ==
    /\ engine.kind = "core"
    /\ script.helpers /= <<>>
    /\ Head(script.helpers).op = "smartPaginate"
    /\ LET call == Head(script.helpers)
           config == SmartConfig(call.data, call.maxItemsBeforePagination, call.pageSize,
                                 call.page)
           r == CorePaginate(This, call.data, config)
           record == [op |-> "smartPaginate", data |-> call.data, config |-> config,
                      out |-> r.out, at |-> now, args |-> call]
       IN /\ Store(r.c)
          /\ last' = record
          /\ script' = [script EXCEPT !.helpers = Tail(@), !.done = Append(@, record)]
    /\ UNCHANGED <<maxSize, impl, now, engine>>

\* one smartPaginate call, its arguments given or left to their defaults
InitSmart ==
    /\ \E cacheService \in BOOLEAN : NewEngine("core", cacheService, Some(MaxN))
    /\ \E data \in DataSets, maxItemsBeforePagination \in Optional(0..MaxLen),
          pageSize \in Optional({0, 1, 2}), page \in Optional({0, 1, 2}) :
          script = [calls |-> <<>>,
                    done |-> <<>>,
                    helpers |-> <<[op |-> "smartPaginate", data |-> data,
                                   maxItemsBeforePagination |-> maxItemsBeforePagination,
                                   pageSize |-> pageSize, page |-> page]>>]

SpecSmart == InitSmart /\ [][SmartPaginate]_vars

----------------------------------------------------------------------------
(* Navigation links *)

\* `${baseUrl}?${new URLSearchParams({ pageSize, page: page.toString() })}`:
\* baseUrl, then "?pageSize=", the page size, "&page=" and the page
CreateUrl(baseUrl, pageSize, page) ==
    baseUrl \o <<63>> \o NamePageSize \o <<61>> \o NumberText(pageSize)
            \o <<38>> \o NamePage \o <<61>> \o NumberText(page)

GenerateNavigationLinksMutant(currentPage, totalPages, baseUrl, pageSize) ==
    [first |-> IF currentPage > 1 THEN Some(CreateUrl(baseUrl, pageSize, 1)) ELSE Undefined,
     previous |-> IF currentPage > 1
                  THEN Some(CreateUrl(baseUrl, pageSize, currentPage - 1)) ELSE Undefined,
     next |-> IF currentPage <= totalPages
              THEN Some(CreateUrl(baseUrl, pageSize, currentPage + 1)) ELSE Undefined,
     last |-> IF currentPage <= totalPages
              THEN Some(CreateUrl(baseUrl, pageSize, totalPages)) ELSE Undefined]

\* generateNavigationLinks(currentPage, totalPages, baseUrl, { pageSize })
GenerateNavigationLinks(currentPage, totalPages, baseUrl, pageSize) ==
    [first |-> IF currentPage > 1 THEN Some(CreateUrl(baseUrl, pageSize, 1)) ELSE Undefined,
     previous |-> IF currentPage > 1
                  THEN Some(CreateUrl(baseUrl, pageSize, currentPage - 1)) ELSE Undefined,
     next |-> IF currentPage < totalPages
              THEN Some(CreateUrl(baseUrl, pageSize, currentPage + 1)) ELSE Undefined,
     last |-> IF currentPage < totalPages
              THEN Some(CreateUrl(baseUrl, pageSize, totalPages)) ELSE Undefined]

\* { ...paginatedResult, links }
WithLinks(out, links) ==
    Ok([data |-> out.result[1].data, meta |-> out.result[1].meta,
        fromCache |-> out.result[1].fromCache, links |-> links])

\* CorePaginator.paginateWithLinks(data, config, baseUrl)
CorePaginateWithLinks(c, data, config, baseUrl) ==
    LET r == CorePaginate(c, data, config)
        normalizedConfig == NormalizeConfig(config)
    IN IF r.out.kind /= "ok" THEN r
       ELSE IF TruthyBoolean(config.noPagination)
       THEN [c |-> r.c, out |-> WithLinks(r.out, Undefined)]
       ELSE [c |-> r.c,
             out |-> WithLinks(r.out,
                         Some(GenerateNavigationLinks(normalizedConfig.page[1],
                                  r.out.result[1].meta.totalPages, baseUrl,
                                  normalizedConfig.pageSize[1])))]

\* PaginatorService.paginateWithLinks(data, config, baseUrl)
ServicePaginateWithLinks(c, data, config, baseUrl) ==
    LET r == ServicePaginate(c, data, config)
    IN IF r.out.kind /= "ok" THEN r
       ELSE [c |-> r.c,
             out |-> WithLinks(r.out,
                         Some(GenerateNavigationLinks(config.page[1],
                                  r.out.result[1].meta.totalPages, baseUrl,
                                  config.pageSize[1])))]

\* paginateWithLinks(data, config, baseUrl = '')
PaginateWithLinks ==
    /\ script.helpers /= <<>>
    /\ Head(script.helpers).op = "paginateWithLinks"
    /\ LET call == Head(script.helpers)
           baseUrl == Default(call.baseUrl, EmptyString)
           r == IF engine.kind = "core"
                THEN CorePaginateWithLinks(This, call.data, call.config, baseUrl)
                ELSE ServicePaginateWithLinks(This, call.data, call.config, baseUrl)
           record == [op |-> "paginateWithLinks", data |-> call.data, config |-> call.config,
                      out |-> r.out, at |-> now, baseUrl |-> baseUrl]
       IN /\ Store(r.c)
          /\ last' = record
          /\ script' = [script EXCEPT !.helpers = Tail(@), !.done = Append(@, record)]
    /\ UNCHANGED <<maxSize, impl, now, engine>>

\* "/items"
BaseUrls == {<<47, 105, 116, 101, 109, 115>>}

LinkConfigs ==
    {Config(page, pageSize, Undefined, enableCache, Undefined, noPagination) :
        page \in Optional(1..MaxLen),
        pageSize \in Optional({1, 2}),
        enableCache \in Optional({TRUE}),
        noPagination \in Optional({TRUE})}

\* one paginateWithLinks call on a new engine, made twice
InitLinks ==
    /\ \E kind \in EngineKinds : NewEngine(kind, TRUE, Some(MaxN))
    /\ \E data \in DataSets, config \in LinkConfigs, baseUrl \in Optional(BaseUrls) :
          LET call == [op |-> "paginateWithLinks", data |-> data, config |-> config,
                       baseUrl |-> baseUrl]
          IN script = [calls |-> <<>>, done |-> <<>>, helpers |-> <<call, call>>]

SpecLinks == InitLinks /\ [][PaginateWithLinks]_vars

----------------------------------------------------------------------------
(* Calls with caching disabled *)

\* the scripted calls with enableCache false or left out
UncachedCalls ==
    {NewCall(call.data, [call.config EXCEPT !.enableCache = enableCache]) :
        call \in ScriptCalls, enableCache \in {Undefined, Some(FALSE)}}

\* a cached call, then one call with caching disabled made twice, on an
\* engine built with or without a cache service, time passing in between
InitDisabled ==
    /\ \E kind \in EngineKinds, cacheService \in BOOLEAN :
          NewEngine(kind, cacheService, Some(MaxN))
    /\ \E first \in ScriptCalls, second \in UncachedCalls :
          script = [calls |-> <<first, second, second>>, done |-> <<>>]

SpecDisabled == InitDisabled /\ [][NextEngine]_vars

----------------------------------------------------------------------------
(* PaginatorService.getAllPages, one page after another *)

\* getAllPages(data, pageSize = DEFAULT_PAGE_SIZE) computes totalPages and
\* enters its loop
AllPagesStart ==
    /\ script.helpers /= <<>>
    /\ Head(script.helpers).op = "getAllPages"
    /\ LET call == Head(script.helpers)
           pageSize == Default(call.pageSize, DEFAULT_PAGE_SIZE)
       IN script' = [script EXCEPT !.helpers = Tail(@),
                                   !.calls = GetAllPages(call.data, pageSize, FALSE),
                                   !.running = Some([data |-> call.data, pageSize |-> pageSize])]
    /\ UNCHANGED <<cache, accessOrder, accessCounter, maxSize, impl, now, engine, last>>

\* the loop has pushed the result of every page: return pages
AllPagesReturn ==
    /\ IsDefined(script.running)
    /\ script.calls = <<>>
    /\ \A k \in 1..Len(script.done) : script.done[k].out.kind = "ok"
    /\ last' = [op |-> "getAllPages", data |-> script.running[1].data,
                pageSize |-> script.running[1].pageSize,
                kind |-> "ok",
                out |-> [k \in 1..Len(script.done) |-> script.done[k].out.result[1]],
                at |-> now]
    /\ script' = [script EXCEPT !.running = Undefined]
    /\ UNCHANGED <<cache, accessOrder, accessCounter, maxSize, impl, now, engine>>

\* one getAllPages call on a new PaginatorService
InitAllPages ==
    /\ \E cacheService \in BOOLEAN : NewEngine("service", cacheService, Some(MaxN))
    /\ \E data \in DataSets, pageSize \in Optional(PageSizes) :
          script = [calls |-> <<>>, done |-> <<>>, running |-> Undefined,
                    helpers |-> <<[op |-> "getAllPages", data |-> data,
                                   pageSize |-> pageSize]>>]

NextAllPages == AllPagesStart \/ Paginate \/ Elapse \/ AllPagesReturn

SpecAllPages == InitAllPages /\ [][NextAllPages]_vars

----------------------------------------------------------------------------
(* The bounds functions on their own *)

\* the integers the bounds functions are applied to
Range == -1..(MaxLen + 1)

\* calculateTotalPages, calculateStartIndex, calculateEndIndex and isValidPage
\* applied to the arguments of the request
Calculate ==
    /\ script.helpers /= <<>>
    /\ Head(script.helpers).op = "calculate"
    /\ LET call == Head(script.helpers)
       IN last' = [op |-> "calculate", args |-> call,
                   totalPages |-> CalculateTotalPages(call.totalItems, call.pageSize),
                   startIndex |-> CalculateStartIndex(call.page, call.pageSize),
                   endIndex |-> CalculateEndIndex(call.page, call.pageSize, call.totalItems),
                   isValidPage |-> IsValidPage(call.page, call.totalPages)]
    /\ script' = [script EXCEPT !.helpers = Tail(@)]
    /\ UNCHANGED <<cache, accessOrder, accessCounter, maxSize, impl, now, engine>>

InitBounds ==
    /\ NewEngine("service", FALSE, Some(MaxN))
    /\ \E page \in Range, pageSize \in Range, totalItems \in Range, totalPages \in Range :
          script = [calls |-> <<>>, done |-> <<>>,
                    helpers |-> <<[op |-> "calculate", page |-> page, pageSize |-> pageSize,
                                   totalItems |-> totalItems, totalPages |-> totalPages]>>]

SpecBounds == InitBounds /\ [][Calculate]_vars

----------------------------------------------------------------------------
(* Fingerprints on their own *)

\* the key under which the engine caches the call
EngineCacheKey(data, config) ==
    IF engine.kind = "service" THEN ServiceCacheKey(data, config)
    ELSE IF TruthyBoolean(config.noPagination) THEN ReturnAllCacheKey(data)
    ELSE CoreCacheKey(data, NormalizeConfig(config))

\* pages and page sizes within 1..100, of one, two and three digits
KeyNumbers == {1, 2, 10, 11, DEFAULT_MAX_PAGE_SIZE}

KeyConfigs ==
    {Cached(Some(page), Some(pageSize), Undefined, cacheTtl) :
        page \in KeyNumbers, pageSize \in KeyNumbers, cacheTtl \in Optional({1})}

\* the fingerprints of two normal-mode calls and of the return-all call on
\* the same data
Fingerprint ==
    /\ script.helpers /= <<>>
    /\ Head(script.helpers).op = "fingerprint"
    /\ LET call == Head(script.helpers)
       IN last' = [op |-> "fingerprint", args |-> call,
                   first |-> EngineCacheKey(call.data, call.first),
                   second |-> EngineCacheKey(call.data, call.second),
                   all |-> ReturnAllCacheKey(call.data)]
    /\ script' = [script EXCEPT !.helpers = Tail(@)]
    /\ UNCHANGED <<cache, accessOrder, accessCounter, maxSize, impl, now, engine>>

InitKeys ==
    /\ \E kind \in EngineKinds : NewEngine(kind, TRUE, Some(MaxN))
    /\ \E data \in DataSets, first \in KeyConfigs, second \in KeyConfigs :
          script = [calls |-> <<>>, done |-> <<>>,
                    helpers |-> <<[op |-> "fingerprint", data |-> data, first |-> first,
                                   second |-> second]>>]

SpecKeys == InitKeys /\ [][Fingerprint]_vars

----------------------------------------------------------------------------
(* Calls on collections that share a fingerprint *)

RECURSIVE CollidingScripts(_)
CollidingScripts(n) ==
    IF n = 0 THEN {<<>>}
    ELSE {Append(calls, call) : calls \in CollidingScripts(n - 1), call \in CollidingCalls}

\* up to three cached calls on one engine, time passing in between
InitColliding ==
    /\ \E kind \in EngineKinds, max \in {Some(1), Some(MaxN)} : NewEngine(kind, TRUE, max)
    /\ \E n \in 1..3 : \E calls \in CollidingScripts(n) :
          script = [calls |-> calls, done |-> <<>>]

SpecColliding == InitColliding /\ [][NextEngine]_vars

----------------------------------------------------------------------------
(* The cache service of an engine, read by its owner between the calls *)

\* the keys the scripted calls are stored under by one engine or the other
ProbedKeys == {ScriptKeys[input] : input \in DOMAIN ScriptKeys}

\* the keys the calls of this script are stored under by this engine
OwnKeys ==
    {EngineCacheKey(script.calls[i].data, script.calls[i].config) : i \in 1..Len(script.calls)}
    \cup {EngineCacheKey(script.done[i].data, script.done[i].config) : i \in 1..Len(script.done)}

\* cacheService.get(key), called directly
ProbeGet(key) ==
    /\ script.reads < MaxAccess
    /\ DoGet(key)
    /\ script' = [script EXCEPT !.reads = @ + 1]

\* cacheService.has(key), called directly
ProbeHas(key) ==
    /\ script.reads < MaxAccess
    /\ LET r == CacheHas(This, now, key) IN
        /\ Store(r.c)
        /\ last' = Call("has", Some(key), Some(r.ret), r.branch)
    /\ script' = [script EXCEPT !.reads = @ + 1]
    /\ UNCHANGED <<maxSize, impl, now, engine>>

\* two cached calls on one engine, time passing and the cache being read in
\* between
InitProbe ==
    /\ \E kind \in EngineKinds, max \in {Some(1), Some(MaxN)} : NewEngine(kind, TRUE, max)
    /\ \E calls \in Scripts(2) : script = [calls |-> calls, done |-> <<>>, reads |-> 0]

NextProbe ==
    \/ Paginate
    \/ Elapse
    \/ \E key \in OwnKeys : ProbeGet(key)
    \/ \E key \in OwnKeys : ProbeHas(key)

SpecProbe == InitProbe /\ [][NextProbe]_vars

----------------------------------------------------------------------------
(* MemoryCacheService.cleanupExpired in flight while set is called *)

\* no cleanupExpired is in flight
NoSweep == [expiredKeys |-> <<>>, next |-> 0, removed |-> <<>>]

\* what the `await this.delete(key)` of cleanupExpired removes, noted with
\* the time of the removal
Removal(c, t, key) ==
    IF MapHas(c.cache, key)
    THEN <<[key |-> key, entry |-> MapGet(c.cache, key)[1], at |-> t]>>
    ELSE <<>>

\* a cache that holds every key without evicting: its set runs to completion
InitSweep ==
    /\ cache = <<>>
    /\ accessOrder = <<>>
    /\ accessCounter = 0
    /\ impl = "memory"
    /\ maxSize = Some(Cardinality(CacheKeys))
    /\ now = 0
    /\ engine = NoEngine
    /\ last = NoCall
    /\ script = NoSweep

\* set(key, value, ttl), whether or not cleanupExpired is in flight
SweepSet(key, value, ttl) ==
    /\ accessCounter < MaxAccess
    /\ DoSet(key, value, ttl)
    /\ UNCHANGED script

\* cleanupExpired() runs up to its first await: the scan of the entries and
\* the first delete; with nothing expired it returns 0
StartCleanup ==
    /\ script.next = 0
    /\ LET expired == SelectSeq(cache, LAMBDA e : IsExpired(now, e.val))
           expiredKeys == [i \in 1..Len(expired) |-> expired[i].key]
       IN IF expiredKeys = <<>>
          THEN /\ last' = [op |-> "cleanupExpired", key |-> Undefined, ret |-> Some(0),
                           branch |-> "", removed |-> <<>>]
               /\ UNCHANGED <<cache, accessOrder, accessCounter, script>>
          ELSE /\ Store(CacheDelete(This, expiredKeys[1]))
               /\ script' = [expiredKeys |-> expiredKeys, next |-> 2,
                             removed |-> Removal(This, now, expiredKeys[1])]
               /\ UNCHANGED last
    /\ UNCHANGED <<maxSize, impl, now, engine>>

\* cleanupExpired resumes after an await: the next delete, or the return of
\* expiredKeys.length
ResumeCleanup ==
    /\ script.next > 0
    /\ IF script.next <= Len(script.expiredKeys)
       THEN LET key == script.expiredKeys[script.next] IN
            /\ Store(CacheDelete(This, key))
            /\ script' = [script EXCEPT !.next = @ + 1,
                                        !.removed = @ \o Removal(This, now, key)]
            /\ UNCHANGED last
       ELSE /\ last' = [op |-> "cleanupExpired", key |-> Undefined,
                        ret |-> Some(Len(script.expiredKeys)), branch |-> "",
                        removed |-> script.removed]
            /\ script' = NoSweep
            /\ UNCHANGED <<cache, accessOrder, accessCounter>>
    /\ UNCHANGED <<maxSize, impl, now, engine>>

NextSweep ==
    \/ \E key \in CacheKeys, w \in CacheWrites : SweepSet(key, w.value, w.ttl)
    \/ StartCleanup
    \/ ResumeCleanup
    \/ Tick

SpecSweep == InitSweep /\ [][NextSweep]_vars

----------------------------------------------------------------------------
(* A MemoryCacheService and a SimpleCache of the same maxSize, given the   *)
(* same calls at the same times                                            *)

\* the MemoryCacheService is held in cache, accessOrder and accessCounter,
\* the SimpleCache in script.twin
InitTwin ==
    /\ cache = <<>>
    /\ accessOrder = <<>>
    /\ accessCounter = 0
    /\ impl = "memory"
    /\ maxSize \in MaxSizes
    /\ now = 0
    /\ engine = NoEngine
    /\ last = NoCall
    /\ script = [twin |-> CacheObject(<<>>, <<>>, 0)]

\* both caches have made the call: what each returned
Both(op, key, memory, simple) ==
    /\ Store(memory.c)
    /\ script' = [twin |-> simple.c]
    /\ last' = [op |-> op, key |-> key, ret |-> memory.ret, twinRet |-> simple.ret]
    /\ UNCHANGED <<maxSize, impl, now, engine>>

TwinGet(key) ==
    /\ accessCounter < MaxAccess
    /\ script.twin.accessCounter < MaxAccess
    /\ Both("get", Some(key), CacheGet(This, now, key), CacheGet(script.twin, now, key))

TwinSet(key, value, ttl) ==
    /\ accessCounter < MaxAccess
    /\ script.twin.accessCounter < MaxAccess
    /\ Both("set", Some(key),
            [c |-> CacheSet(This, "memory", maxSize, now, key, value, ttl).c, ret |-> Undefined],
            [c |-> CacheSet(script.twin, "simple", maxSize, now, key, value, ttl).c,
             ret |-> Undefined])

TwinDelete(key) ==
    Both("delete", Some(key),
         [c |-> CacheDelete(This, key), ret |-> Undefined],
         [c |-> CacheDelete(script.twin, key), ret |-> Undefined])

TwinClear ==
    Both("clear", Undefined,
         [c |-> CacheClear(This), ret |-> Undefined],
         [c |-> CacheClear(script.twin), ret |-> Undefined])

TwinHas(key) ==
    Both("has", Some(key), CacheHas(This, now, key), CacheHas(script.twin, now, key))

\* time passes between two calls
TwinTick ==
    /\ now < MaxTime
    /\ now' = now + 1
    /\ UNCHANGED <<cache, accessOrder, accessCounter, maxSize, impl, engine, last, script>>

NextTwin ==
    \/ \E key \in CacheKeys : TwinGet(key)
    \/ \E key \in CacheKeys, w \in CacheWrites : TwinSet(key, w.value, w.ttl)
    \/ \E key \in CacheKeys : TwinDelete(key)
    \/ TwinClear
    \/ \E key \in CacheKeys : TwinHas(key)
    \/ TwinTick

SpecTwin == InitTwin /\ [][NextTwin]_vars

----------------------------------------------------------------------------
(* PaginatorService.getAllPages with any page size *)

\* page sizes on both sides of 1 and of the largest page size allowed
AnyPageSizes == {-1, 0, 1, 2, DEFAULT_MAX_PAGE_SIZE, DEFAULT_MAX_PAGE_SIZE + 1}

\* the paginate call of the loop has thrown
LoopFailed == script.done /= <<>> /\ script.done[Len(script.done)].out.kind /= "ok"

\* the next paginate call of the loop
AllPagesStep == ~LoopFailed /\ Paginate

\* `await this.paginate(data, config)` throws inside the loop: getAllPages
\* rejects with the same error
AllPagesThrow ==
    /\ IsDefined(script.running)
    /\ LoopFailed
    /\ last' = [op |-> "getAllPages", data |-> script.running[1].data,
                pageSize |-> script.running[1].pageSize,
                kind |-> script.done[Len(script.done)].out.kind,
                out |-> <<>>,
                at |-> now]
    /\ script' = [script EXCEPT !.running = Undefined, !.calls = <<>>]
    /\ UNCHANGED <<cache, accessOrder, accessCounter, maxSize, impl, now, engine>>

\* one getAllPages call on a new PaginatorService
InitAnyPages ==
    /\ \E cacheService \in BOOLEAN : NewEngine("service", cacheService, Some(MaxN))
    /\ \E data \in DataSets, pageSize \in Optional(AnyPageSizes) :
          script = [calls |-> <<>>, done |-> <<>>, running |-> Undefined,
                    helpers |-> <<[op |-> "getAllPages", data |-> data,
                                   pageSize |-> pageSize]>>]

NextAnyPages == AllPagesStart \/ AllPagesStep \/ Elapse \/ AllPagesThrow \/ AllPagesReturn

SpecAnyPages == InitAnyPages /\ [][NextAnyPages]_vars

----------------------------------------------------------------------------
(* Two identical paginate calls in flight on one engine *)

\* paginate(data, config) runs up to `await this.cacheService.get(cacheKey)`:
\* the lookup is made, the call waits for its result
StartRequest ==
    /\ script.calls = <<>>
    /\ script.requests /= <<>>
    /\ LET call == Head(script.requests)
           cacheKey == EngineCacheKey(call.data, call.config)
           found == Lookup(This, call.config, cacheKey)
       IN /\ Store(found.c)
          /\ script' = [script EXCEPT
                 !.requests = Tail(@),
                 !.pending = @ \cup {[id |-> Len(script.requests), call |-> call,
                                      cacheKey |-> cacheKey, found |-> found.ret,
                                      entry |-> Undefined, started |-> now]}]
    /\ UNCHANGED <<maxSize, impl, now, engine, last>>

\* the call has returned
Completed(request, out) ==
    [op |-> "paginate", data |-> request.call.data, config |-> request.call.config,
     out |-> out, at |-> request.started]

\* a call resumes with the result of the lookup: on a hit it returns the
\* cached result; otherwise it computes the page and calls set, which
\* inserts the entry at once or, with an eviction due, after an await
ResumeRequest ==
    \E request \in script.pending :
        /\ request.entry = Undefined
        /\ LET call == request.call
               computed == EnginePaginate(This, call.data,
                               [call.config EXCEPT !.enableCache = Some(FALSE)]).out
               entry == [value |-> computed.result[1],
                         expiresAt |-> now + OrElse(call.config.cacheTtl, DEFAULT_CACHE_TTL),
                         createdAt |-> now]
           IN IF IsDefined(request.found)
              THEN /\ last' = Completed(request, Ok([request.found[1] EXCEPT !.fromCache = TRUE]))
                   /\ script' = [script EXCEPT !.pending = @ \ {request},
                                               !.done = Append(@, last')]
                   /\ UNCHANGED <<cache, accessOrder, accessCounter>>
              ELSE IF computed.kind /= "ok" \/ ~Caching(call.config)
              THEN /\ last' = Completed(request, computed)
                   /\ script' = [script EXCEPT !.pending = @ \ {request},
                                               !.done = Append(@, last')]
                   /\ UNCHANGED <<cache, accessOrder, accessCounter>>
              ELSE IF MustEvict(This, impl, maxSize, request.cacheKey)
              THEN /\ Store(EvictLeastRecentlyUsed(This))
                   /\ script' = [script EXCEPT !.pending =
                          (@ \ {request}) \cup {[request EXCEPT !.entry = Some(entry)]}]
                   /\ UNCHANGED last
              ELSE /\ Store(Insert(This, request.cacheKey, entry))
                   /\ last' = Completed(request, computed)
                   /\ script' = [script EXCEPT !.pending = @ \ {request},
                                               !.done = Append(@, last')]
        /\ UNCHANGED <<maxSize, impl, now, engine>>

\* set resumes after the eviction: it inserts the entry, and the call returns
FinishStore ==
    \E request \in script.pending :
        /\ request.entry /= Undefined
        /\ Store(Insert(This, request.cacheKey, request.entry[1]))
        /\ last' = Completed(request, Ok(request.entry[1].value))
        /\ script' = [script EXCEPT !.pending = @ \ {request}, !.done = Append(@, last')]
        /\ UNCHANGED <<maxSize, impl, now, engine>>

\* Date.now() advances while calls are in flight
Wait ==
    /\ script.pending /= {}
    /\ now < MaxTime
    /\ now' = now + 1
    /\ UNCHANGED <<cache, accessOrder, accessCounter, maxSize, impl, engine, last, script>>

\* a first call that runs to completion, then another call, one that the
\* engine accepts, made twice on a cache that holds no entry for it
InitRequests ==
    /\ \E kind \in EngineKinds, max \in {Some(1), Some(MaxN)} : NewEngine(kind, TRUE, max)
    /\ \E first \in ScriptCalls, call \in ScriptCalls :
          /\ EngineCacheKey(first.data, first.config) /= EngineCacheKey(call.data, call.config)
          /\ EnginePaginate(This, call.data,
                            [call.config EXCEPT !.enableCache = Some(FALSE)]).out.kind = "ok"
          /\ script = [calls |-> <<first>>, done |-> <<>>,
                       requests |-> <<call, call>>, pending |-> {}]

NextRequests == Paginate \/ StartRequest \/ ResumeRequest \/ FinishStore \/ Wait

SpecRequests == InitRequests /\ [][NextRequests]_vars

----------------------------------------------------------------------------
(* Reading the cache in a state *)

Stored(k) == MapHas(cache, k)
Entry(k) == MapGet(cache, k)[1]
Recency(k) == MapGet(accessOrder, k)[1]
HasNow(k) == CacheHas(This, now, k).ret

----------------------------------------------------------------------------
(* C1: with maxSize = N >= 1, after any sequence of get, set, delete,      *)
(* clear, has and cleanupExpired calls, each run to completion, the cache  *)
(* stores at most N entries.                                               *)
CapacityBound ==
    maxSize[1] >= 1 => Len(cache) <= maxSize[1]

(* C2: a set of a key with no stored entry, into a cache that holds        *)
(* maxSize entries, removes exactly one stored entry, the one with the     *)
(* smallest recency, and keeps every other entry; for every key string,    *)
(* the empty one included.                                                 *)
EvictionVictim ==
    [][ ( /\ last'.op = "set"
          /\ maxSize[1] >= 1
          /\ Len(cache) = maxSize[1]
          /\ ~Stored(last'.key[1]) )
        => \E victim \in MapKeys(cache) :
              /\ \A k \in MapKeys(cache) : Recency(victim) <= Recency(k)
              /\ MapKeys(cache') = (MapKeys(cache) \ {victim}) \cup {last'.key[1]}
              /\ \A k \in MapKeys(cache) \ {victim} :
                    MapGet(cache', k) = MapGet(cache, k) ]_vars

(* C3: after set k1..kN (distinct, unexpired) into a cache with            *)
(* maxSize = N >= 2, then get(k1), then set of one more distinct key, the  *)
(* key removed is k2, and k1, k3..kN and the new key are still present.    *)
LruRefresh ==
    (script.keys /= <<>> /\ script.ops = <<>>) =>
        \A i \in 1..Len(script.keys) : HasNow(script.keys[i]) <=> (i /= 2)

(* C4: get of a stored entry at a time now <= expiresAt returns the stored *)
(* value; at a time now > expiresAt it returns absent and removes the      *)
(* entry, so that has(key) is false and the entry no longer counts in the  *)
(* size; a set at time t with ttl d stores expiresAt = t + d.              *)
TtlExpiryOnGet ==
    [][ /\ (last'.op = "get" /\ Stored(last'.key[1])) =>
            LET k == last'.key[1] IN
            IF now <= Entry(k).expiresAt
            THEN /\ last'.ret = Some(Entry(k).value)
                 /\ MapGet(cache', k) = MapGet(cache, k)
            ELSE /\ last'.ret = Undefined
                 /\ ~MapHas(cache', k)
                 /\ Len(cache') = Len(cache) - 1
                 /\ ~CacheHas(CacheObject(cache', accessOrder', accessCounter'), now', k).ret
        /\ last'.op = "set" =>
            \E w \in CacheWrites :
                /\ MapHas(cache', last'.key[1])
                /\ MapGet(cache', last'.key[1])[1].createdAt = now
                /\ MapGet(cache', last'.key[1])[1].value = w.value
                /\ MapGet(cache', last'.key[1])[1].expiresAt = now + w.ttl ]_vars

\* a get has just found its entry expired and removed it
TtlExpiryOnGetWitness ==
    /\ last.op = "get"
    /\ last.branch = "expired"
    /\ ~Stored(last.key[1])
    /\ Len(cache) >= 1

----------------------------------------------------------------------------
(* Reading the calls made on an engine *)

Done == script.done
Returned(call) == call.out.result[1]
ReturnAllMode(call) == engine.kind = "core" /\ TruthyBoolean(call.config.noPagination)
SameCall(a, b) == a.data = b.data /\ a.config = b.config

\* the page and page size a call asks for, the defaults standing in for
\* what is not supplied
AskedPage(call) == IF IsDefined(call.config.page) THEN call.config.page[1] ELSE 1
AskedPageSize(call) ==
    IF IsDefined(call.config.pageSize) THEN call.config.pageSize[1] ELSE DEFAULT_PAGE_SIZE
AskedTtl(call) ==
    IF IsDefined(call.config.cacheTtl) THEN call.config.cacheTtl[1] ELSE DEFAULT_CACHE_TTL

RECURSIVE Concatenated(_)
Concatenated(calls) ==
    IF calls = <<>> THEN <<>>
    ELSE Concatenated(SubSeq(calls, 1, Len(calls) - 1)) \o Returned(calls[Len(calls)]).data

(* C5: once every page 1..totalPages of a collection has been paginated in
   normal mode, the pages' data concatenated in page order is the collection
   itself, every page but the last holds pageSize items and the last holds
   n - (totalPages - 1) * pageSize items. *)
PagePartition ==
    (script.calls = <<>> /\ Done /= <<>>) =>
        LET data == Done[1].data
            pageSize == Done[1].config.pageSize[1]
            totalPages == Len(Done)
        IN /\ \A page \in 1..totalPages : Done[page].out.kind = "ok"
           /\ Concatenated(Done) = data
           /\ \A page \in 1..(totalPages - 1) : Len(Returned(Done[page]).data) = pageSize
           /\ Len(Returned(Done[totalPages]).data) = Len(data) - (totalPages - 1) * pageSize

PagePartitionWitness ==
    /\ script.calls = <<>>
    /\ Len(Done) = 2
    /\ Len(Done[1].data) = 3
    /\ Returned(Done[1]).data = <<1, 2>>
    /\ Returned(Done[2]).data = <<3>>

\* totalPages = ceil(totalItems / pageSize), both positive
IsCeiling(totalPages, totalItems, pageSize) ==
    (totalPages - 1) * pageSize < totalItems /\ totalItems <= totalPages * pageSize

HasFlags(meta) ==
    /\ meta.hasPrevious = (meta.currentPage > 1)
    /\ meta.hasNext = (meta.currentPage < meta.totalPages)

(* C6, as stated: every result paginate returns, in normal mode and in
   return-all mode, has totalPages = ceil(totalItems / pageSize) when both are
   positive and totalPages = 0 otherwise, hasPrevious = (currentPage > 1) and
   hasNext = (currentPage < totalPages). *)
MetaInvariantStated ==
    (last.op = "paginate" /\ last.out.kind = "ok") =>
        LET meta == Returned(last).meta
        IN /\ IF meta.totalItems > 0 /\ meta.pageSize > 0
              THEN IsCeiling(meta.totalPages, meta.totalItems, meta.pageSize)
              ELSE meta.totalPages = 0
           /\ HasFlags(meta)

(* C6: every result paginate returns has totalPages = ceil(totalItems /
   pageSize) when both are positive; otherwise totalPages = 0 in normal mode
   and totalPages = 1 in return-all mode; in both modes hasPrevious =
   (currentPage > 1) and hasNext = (currentPage < totalPages). *)
MetaInvariant ==
    (last.op = "paginate" /\ last.out.kind = "ok") =>
        LET meta == Returned(last).meta
        IN /\ IF meta.totalItems > 0 /\ meta.pageSize > 0
              THEN IsCeiling(meta.totalPages, meta.totalItems, meta.pageSize)
              ELSE meta.totalPages = (IF ReturnAllMode(last) THEN 1 ELSE 0)
           /\ HasFlags(meta)

MetaInvariantWitness ==
    /\ last.op = "paginate"
    /\ last.out.kind = "ok"
    /\ ReturnAllMode(last)
    /\ last.data = <<>>
    /\ Returned(last).meta.totalPages = 1
    /\ Returned(last).fromCache

(* C7, as stated: two calls with the same data and the same config,
   enableCache true, made one after the other on an engine that has a cache,
   less than the TTL apart, the first of them returning a result: they return
   equal data and equal meta, and the second returns fromCache = true; the
   first call on a new engine returns fromCache = false. *)
CachedIdempotenceStated ==
    /\ (Done /= <<>> /\ Done[1].out.kind = "ok") => ~Returned(Done[1]).fromCache
    /\ \A i \in 2..Len(Done) :
          (/\ SameCall(Done[i - 1], Done[i])
           /\ Done[i - 1].out.kind = "ok"
           /\ Done[i].at - Done[i - 1].at < AskedTtl(Done[i]))
          => /\ Done[i].out.kind = "ok"
             /\ Returned(Done[i]).data = Returned(Done[i - 1]).data
             /\ Returned(Done[i]).meta = Returned(Done[i - 1]).meta
             /\ Returned(Done[i]).fromCache

(* C7: two calls with the same data and the same config, enableCache true,
   made one after the other on an engine that has a cache, less than the TTL
   apart, the first of them returning a result, return equal data and equal
   meta; when the first was not served from the cache, the second returns
   fromCache = true; the first call on a new engine returns fromCache =
   false. *)
CachedIdempotence ==
    /\ (Done /= <<>> /\ Done[1].out.kind = "ok") => ~Returned(Done[1]).fromCache
    /\ \A i \in 2..Len(Done) :
          (/\ SameCall(Done[i - 1], Done[i])
           /\ Done[i - 1].out.kind = "ok"
           /\ Done[i].at - Done[i - 1].at < AskedTtl(Done[i]))
          => /\ Done[i].out.kind = "ok"
             /\ Returned(Done[i]).data = Returned(Done[i - 1]).data
             /\ Returned(Done[i]).meta = Returned(Done[i - 1]).meta
             /\ ~Returned(Done[i - 1]).fromCache => Returned(Done[i]).fromCache

CachedIdempotenceWitness ==
    /\ Len(Done) = 2
    /\ SameCall(Done[1], Done[2])
    /\ Done[1].data /= <<>>
    /\ ~Returned(Done[1]).fromCache
    /\ Returned(Done[2]).fromCache
    /\ Returned(Done[2]).data = Returned(Done[1]).data

(* C8: after a normal-mode call has computed and stored its result, the next
   call with equal data and the same page and pageSize, made before that
   entry expires, is a cache hit, whatever its cacheTtl and maxPageSize, on a
   CorePaginator and on a PaginatorService. *)
SameFingerprint ==
    \A i \in 2..Len(Done) :
        (/\ ~ReturnAllMode(Done[i - 1])
         /\ ~ReturnAllMode(Done[i])
         /\ Done[i - 1].out.kind = "ok"
         /\ ~Returned(Done[i - 1]).fromCache
         /\ Done[i].data = Done[i - 1].data
         /\ AskedPage(Done[i]) = AskedPage(Done[i - 1])
         /\ AskedPageSize(Done[i]) = AskedPageSize(Done[i - 1])
         /\ Done[i].at - Done[i - 1].at < AskedTtl(Done[i - 1]))
        => (Done[i].out.kind = "ok" /\ Returned(Done[i]).fromCache)

(* C9: a normal-mode call that passes validation and is not served from the
   cache fails with PageNotFound exactly when totalPages > 0 and page >
   totalPages; on an empty collection it returns data = [], totalItems = 0,
   totalPages = 0, firstItemIndex = 0 and lastItemIndex = 0. *)
PageNotFoundCondition ==
    (/\ last.op = "paginate"
     /\ ~ReturnAllMode(last)
     /\ last.out.kind \in {"ok", "PageNotFound"}
     /\ last.out.kind = "ok" => ~Returned(last).fromCache)
    => LET n == Len(last.data)
           beyond == n > 0 /\ (AskedPage(last) - 1) * AskedPageSize(last) >= n
       IN /\ (last.out.kind = "PageNotFound") <=> beyond
          /\ n = 0 => /\ last.out.kind = "ok"
                      /\ Returned(last).data = <<>>
                      /\ Returned(last).meta.totalItems = 0
                      /\ Returned(last).meta.totalPages = 0
                      /\ Returned(last).meta.firstItemIndex = 0
                      /\ Returned(last).meta.lastItemIndex = 0

PageNotFoundConditionWitness ==
    /\ last.op = "paginate"
    /\ last.out.kind = "PageNotFound"
    /\ Len(last.data) = 2
    /\ AskedPage(last) = 2
    /\ AskedPageSize(last) = 2

\* the validation rules a configuration violates
PageRule(config) == IsDefined(config.page) /\ config.page[1] <= 0
PageSizeRule(config) == IsDefined(config.pageSize) /\ config.pageSize[1] <= 0
MaxPageSizeRule(config) ==
    (IF IsDefined(config.pageSize) THEN config.pageSize[1] ELSE DEFAULT_PAGE_SIZE)
    > (IF IsDefined(config.maxPageSize) THEN config.maxPageSize[1] ELSE DEFAULT_MAX_PAGE_SIZE)
CacheTtlRule(config) == IsDefined(config.cacheTtl) /\ config.cacheTtl[1] < 0
Violations(config) ==
    {rule \in {"page", "pageSize", "maxPageSize", "cacheTtl"} :
        \/ rule = "page" /\ PageRule(config)
        \/ rule = "pageSize" /\ PageSizeRule(config)
        \/ rule = "maxPageSize" /\ MaxPageSizeRule(config)
        \/ rule = "cacheTtl" /\ CacheTtlRule(config)}

(* C10: a normal-mode call that supplies the fields its engine requires
   fails with InvalidConfig or InvalidPageSize exactly when a rule is violated
   (supplied page <= 0; supplied pageSize <= 0; pageSize above maxPageSize, or
   above 100 when maxPageSize is absent; supplied cacheTtl < 0); when one rule
   alone is violated the kind is InvalidPageSize for the two pageSize rules
   and InvalidConfig for the page rule and the cacheTtl rule. *)
ValidationKinds ==
    (/\ last.op = "paginate"
     /\ ~ReturnAllMode(last)
     /\ engine.kind = "service" => IsDefined(last.config.page) /\ IsDefined(last.config.pageSize))
    => LET violated == Violations(last.config)
       IN /\ (last.out.kind \in {"InvalidConfig", "InvalidPageSize"}) <=> violated /= {}
          /\ violated \in {{"page"}, {"cacheTtl"}} => last.out.kind = "InvalidConfig"
          /\ violated \in {{"pageSize"}, {"maxPageSize"}} => last.out.kind = "InvalidPageSize"

(* C11: a paginate call that fails with InvalidConfig or InvalidPageSize
   leaves the cache's entries, its recency records and its recency counter
   exactly as they were before the call. *)
ValidationPrecedesCache ==
    [][(script' /= script /\ last'.out.kind \in {"InvalidConfig", "InvalidPageSize"})
       => (cache' = cache /\ accessOrder' = accessOrder /\ accessCounter' = accessCounter)]_vars

ValidationPrecedesCacheWitness ==
    /\ Len(Done) = 2
    /\ Done[2].out.kind = "InvalidConfig"
    /\ Done[2].config.page = Done[1].config.page
    /\ Done[2].config.pageSize = Done[1].config.pageSize
    /\ cache /= <<>>
    /\ now > cache[1].val.expiresAt

(* C12: with caching enabled and a cache service whose get or set may
   reject, no paginate call with valid data and config ends in the cache
   service's failure. *)
CacheFailureContained ==
    \A i \in 1..Len(Done) : Done[i].out.kind /= "CacheFailure"

\* what the engine returns for the call with caching disabled
Uncached(call) ==
    EnginePaginate(This, call.data, [call.config EXCEPT !.enableCache = Some(FALSE)]).out

(* C13: when a paginate call with caching enabled computes a fresh result
   and the cache service's set rejects, the call succeeds with the data and
   meta of the same call with caching disabled and fromCache = false, in
   normal and in return-all mode. *)
SwallowedStoreFailure ==
    [][(/\ script' /= script
        /\ SetFails /\ ~GetFails
        /\ Caching(Head(script.calls).config)
        /\ Uncached(Head(script.calls)).kind = "ok")
       => (/\ last'.out.kind = "ok"
           /\ Returned(last').data = Uncached(Head(script.calls)).result[1].data
           /\ Returned(last').meta = Uncached(Head(script.calls)).result[1].meta
           /\ (cache = <<>> => ~Returned(last').fromCache /\ cache' = <<>>))]_vars

SwallowedStoreFailureWitness ==
    /\ Len(Done) = 2
    /\ engine.fault = "set"
    /\ cache = <<>>
    /\ \A i \in 1..2 : Done[i].out.kind = "ok" /\ ~Returned(Done[i]).fromCache
    /\ ReturnAllMode(Done[1])
    /\ ~ReturnAllMode(Done[2])

(* C14: a paginate call whose cacheTtl is a negative integer, its page and
   pageSize being valid, fails with InvalidConfig whether noPagination is
   true, false or absent, and writes no entry to the cache. *)
NegativeTtlRejected ==
    \A i \in 1..Len(Done) :
        (/\ IsDefined(Done[i].config.cacheTtl)
         /\ Done[i].config.cacheTtl[1] < 0
         /\ Done[i].config.page = Some(1)
         /\ Done[i].config.pageSize = Some(1)
         /\ ~IsDefined(Done[i].config.maxPageSize))
        => (Done[i].out.kind = "InvalidConfig" /\ cache = <<>>)

(* C16: when the first caching call on a new engine stores its freshly
   computed result, the entry's time to live is the cacheTtl the caller
   supplied, for every non-negative integer including 0, and 300000 ms only
   when the caller supplied none. *)
StoredTtl ==
    (/\ Len(Done) = 1
     /\ Caching(Done[1].config)
     /\ Done[1].out.kind = "ok"
     /\ ~(IsDefined(Done[1].config.cacheTtl) /\ Done[1].config.cacheTtl[1] < 0))
    => (/\ Len(cache) = 1
        /\ cache[1].val.expiresAt - cache[1].val.createdAt = AskedTtl(Done[1]))

(* C15: once every set call started on a cache of capacity maxSize >= 1 has
   completed, whatever the interleaving of their continuations, the cache
   holds at most maxSize entries. *)
ConcurrentSetsAtomic ==
    (script.calls = <<>> /\ script.pending = <<>>) => Len(cache) <= maxSize[1]

(* C17: for every data sequence of length n, paginate with noPagination =
   true and getAllData return the whole input in source order with meta =
   {currentPage: 1, pageSize: n, totalItems: n, totalPages: 1, hasPrevious:
   false, hasNext: false, firstItemIndex: 1 if n > 0 else 0, lastItemIndex:
   n}, whatever page and pageSize the config carries. *)
ReturnAllResult ==
    \A i \in 1..Len(Done) :
        ReturnAllMode(Done[i])
        => /\ Done[i].out.kind = "ok"
           /\ Returned(Done[i]).data = Done[i].data
           /\ Returned(Done[i]).meta =
                  [currentPage |-> 1,
                   pageSize |-> Len(Done[i].data),
                   totalItems |-> Len(Done[i].data),
                   totalPages |-> 1,
                   hasPrevious |-> FALSE,
                   hasNext |-> FALSE,
                   firstItemIndex |-> IF Len(Done[i].data) > 0 THEN 1 ELSE 0,
                   lastItemIndex |-> Len(Done[i].data)]

ReturnAllResultWitness ==
    /\ Len(Done) = 2
    /\ Done[1].op = "paginate"
    /\ Done[1].config.page = Some(2)
    /\ Done[1].config.pageSize = Some(1)
    /\ Len(Done[1].data) = MaxLen
    /\ Done[2].op = "getAllData"
    /\ Returned(Done[2]).fromCache
    /\ Returned(Done[2]).data = Done[1].data

(* C18: for every data of length n >= 1, a successful normal-mode call for
   page p with page size s returns the input items at 0-based positions
   (p-1)*s up to min(p*s, n) - 1 in source order, with firstItemIndex =
   (p-1)*s + 1, lastItemIndex = min(p*s, n), lastItemIndex - firstItemIndex
   + 1 = data.length and 1 <= data.length <= s. *)
PageResult ==
    \A i \in 1..Len(Done) :
        (Done[i].out.kind = "ok" /\ ~ReturnAllMode(Done[i]) /\ Len(Done[i].data) >= 1)
        => LET p == AskedPage(Done[i])
               s == AskedPageSize(Done[i])
               n == Len(Done[i].data)
               page == Returned(Done[i])
           IN /\ page.data = SubSeq(Done[i].data, (p - 1) * s + 1, MathMin(p * s, n))
              /\ page.meta.firstItemIndex = (p - 1) * s + 1
              /\ page.meta.lastItemIndex = MathMin(p * s, n)
              /\ page.meta.lastItemIndex - page.meta.firstItemIndex + 1 = Len(page.data)
              /\ 1 <= Len(page.data)
              /\ Len(page.data) <= s

PageResultWitness ==
    /\ Len(Done) = 2
    /\ Done[2].out.kind = "ok"
    /\ ~ReturnAllMode(Done[2])
    /\ Len(Done[2].data) = MaxLen
    /\ AskedPage(Done[2]) = 2
    /\ AskedPageSize(Done[2]) = 2
    /\ Len(Returned(Done[2]).data) = MaxLen - 2
    /\ Returned(Done[2]).fromCache

\* the threshold, page size and page of a smartPaginate call, its defaults
\* standing in for the arguments left out
Threshold(call) == Default(call.args.maxItemsBeforePagination, MaxItemsBeforePagination)
SmartPageSize(call) == Default(call.args.pageSize, DEFAULT_PAGE_SIZE)
SmartPage(call) == Default(call.args.page, 1)

(* C19: smartPaginate returns exactly the return-all result when
   data.length <= threshold, the boundary included, and exactly the outcome
   of normal-mode paginate with that page and pageSize, its errors included,
   when data.length > threshold. *)
SmartDerivation ==
    \A i \in 1..Len(Done) :
        Done[i].op = "smartPaginate"
        => IF Len(Done[i].data) <= Threshold(Done[i])
           THEN Done[i].out =
                    Ok([data |-> Done[i].data,
                        meta |-> [currentPage |-> 1,
                                  pageSize |-> Len(Done[i].data),
                                  totalItems |-> Len(Done[i].data),
                                  totalPages |-> 1,
                                  hasPrevious |-> FALSE,
                                  hasNext |-> FALSE,
                                  firstItemIndex |-> IF Len(Done[i].data) > 0 THEN 1 ELSE 0,
                                  lastItemIndex |-> Len(Done[i].data)],
                        fromCache |-> FALSE])
           ELSE Done[i].out =
                    CorePaginate(This, Done[i].data,
                                 Config(Some(SmartPage(Done[i])), Some(SmartPageSize(Done[i])),
                                        Undefined, Undefined, Undefined, Undefined)).out

SmartDerivationWitness ==
    /\ Len(Done) = 1
    /\ Done[1].op = "smartPaginate"
    /\ Len(Done[1].data) = MaxLen
    /\ Threshold(Done[1]) = MaxLen
    /\ SmartPageSize(Done[1]) = 1
    /\ Len(Returned(Done[1]).data) = MaxLen

\* the index of the last ch in str, 0 when there is none
LastIndexOf(str, ch) ==
    LET at == {i \in 1..Len(str) : str[i] = ch}
    IN IF at = {} THEN 0 ELSE CHOOSE i \in at : \A j \in at : j <= i

RECURSIVE ParseNumber(_)
ParseNumber(text) ==
    IF text = <<>> THEN 0
    ELSE 10 * ParseNumber(SubSeq(text, 1, Len(text) - 1)) + (text[Len(text)] - 48)

\* the page a link leads to: the value of its page parameter
TargetPage(url) == ParseNumber(SubSeq(url, LastIndexOf(url, 61) + 1, Len(url)))

\* the link is present and leads to the page
LeadsTo(link, page) == IsDefined(link) /\ TargetPage(link[1]) = page

(* C20: for every successful normal-mode paginateWithLinks call, links.first
   and links.previous are present iff currentPage > 1 and lead to pages 1
   and currentPage - 1; links.next and links.last are present iff
   currentPage < totalPages and lead to pages currentPage + 1 and
   totalPages; a return-all call carries no links. *)
NavigationLinks ==
    \A i \in 1..Len(Done) :
        (Done[i].op = "paginateWithLinks" /\ Done[i].out.kind = "ok")
        => IF ReturnAllMode(Done[i]) THEN Returned(Done[i]).links = Undefined
           ELSE LET links == Returned(Done[i]).links[1]
                    currentPage == Returned(Done[i]).meta.currentPage
                    totalPages == Returned(Done[i]).meta.totalPages
                IN /\ IsDefined(links.first) <=> currentPage > 1
                   /\ IsDefined(links.previous) <=> currentPage > 1
                   /\ IsDefined(links.next) <=> currentPage < totalPages
                   /\ IsDefined(links.last) <=> currentPage < totalPages
                   /\ currentPage > 1
                      => LeadsTo(links.first, 1) /\ LeadsTo(links.previous, currentPage - 1)
                   /\ currentPage < totalPages
                      => LeadsTo(links.next, currentPage + 1) /\ LeadsTo(links.last, totalPages)

NavigationLinksWitness ==
    /\ Len(Done) = 2
    /\ Done[2].op = "paginateWithLinks"
    /\ Done[2].out.kind = "ok"
    /\ Returned(Done[2]).fromCache
    /\ Returned(Done[2]).meta.currentPage = 2
    /\ Returned(Done[2]).meta.totalPages = MaxLen
    /\ LeadsTo(Returned(Done[2]).links[1].previous, 1)
    /\ LeadsTo(Returned(Done[2]).links[1].last, MaxLen)

(* C21: a paginate call whose enableCache is false or absent, or that runs
   on an engine built without a cache service, leaves the cache's entries,
   recency records and recency counter unchanged, and a successful one
   returns fromCache = false, however often the call is repeated. *)
CacheUntouchedWhenDisabled ==
    [][(/\ script' /= script
        /\ (~TruthyBoolean(Head(script.calls).config.enableCache) \/ ~engine.cacheService))
       => (/\ cache' = cache
           /\ accessOrder' = accessOrder
           /\ accessCounter' = accessCounter
           /\ last'.out.kind = "ok" => ~Returned(last').fromCache)]_vars

CacheUntouchedWhenDisabledWitness ==
    /\ Len(Done) = 3
    /\ engine.cacheService
    /\ SameCall(Done[2], Done[3])
    /\ ~TruthyBoolean(Done[3].config.enableCache)
    /\ Done[3].data = Done[1].data
    /\ Done[3].config.page = Done[1].config.page
    /\ Done[3].config.pageSize = Done[1].config.pageSize
    /\ Done[3].out.kind = "ok"
    /\ ~Returned(Done[3]).fromCache
    /\ cache /= <<>>
    /\ now > cache[1].val.expiresAt

\* the call's config with page = 1 and pageSize = 10 written where it leaves
\* them out, and caching off
Defaulted(call) ==
    [call.config EXCEPT !.page = Some(AskedPage(call)),
                        !.pageSize = Some(AskedPageSize(call)),
                        !.enableCache = Some(FALSE)]

\* the same outcome: the same error, or the same data and meta
SameOutcome(a, b) ==
    /\ a.kind = b.kind
    /\ a.kind = "ok" => (a.result[1].data = b.result[1].data /\ a.result[1].meta = b.result[1].meta)

(* C22: in normal mode on CorePaginator a config that omits page and/or
   pageSize is paginated exactly as with page = 1 and/or pageSize = 10; on
   either engine, with maxPageSize omitted, pageSize = 100 is not rejected
   for its size and pageSize = 101 is rejected with InvalidPageSize. *)
OmittedFieldDefaults ==
    \A i \in 1..Len(Done) :
        ~TruthyBoolean(Done[i].config.noPagination)
        => /\ (/\ engine.kind = "core"
               /\ (~IsDefined(Done[i].config.page) \/ ~IsDefined(Done[i].config.pageSize)))
              => SameOutcome(Done[i].out, CorePaginate(This, Done[i].data, Defaulted(Done[i])).out)
           /\ (/\ ~IsDefined(Done[i].config.maxPageSize)
               /\ Done[i].config.pageSize = Some(100))
              => Done[i].out.kind /= "InvalidPageSize"
           /\ (/\ ~IsDefined(Done[i].config.maxPageSize)
               /\ Done[i].config.pageSize = Some(101)
               /\ Done[i].config.page = Some(1))
              => Done[i].out.kind = "InvalidPageSize"

OmittedFieldDefaultsWitness ==
    /\ Len(Done) = 2
    /\ engine.kind = "core"
    /\ Done[2].config.page = Undefined
    /\ Done[2].config.pageSize = Undefined
    /\ ~TruthyBoolean(Done[2].config.noPagination)
    /\ Len(Done[2].data) = MaxLen
    /\ Done[2].out.kind = "ok"
    /\ Returned(Done[2]).meta.currentPage = 1
    /\ Returned(Done[2]).meta.pageSize = 10
    /\ Returned(Done[2]).data = Done[2].data

\* the key has an entry that has outlived its expiry
Outlived(k) == Stored(k) /\ now > Entry(k).expiresAt

(* C23: cleanupExpired, run to completion, removes every entry with now >
   expiresAt and no other, returns the number of entries it removed, and
   leaves the value, expiry and recency of every surviving entry and the
   recency counter unchanged. *)
CleanupExpiredFrame ==
    [][last'.op = "cleanupExpired"
       => (/\ cache' = SelectSeq(cache, LAMBDA e : ~Outlived(e.key))
           /\ accessOrder' = SelectSeq(accessOrder, LAMBDA r : ~Outlived(r.key))
           /\ accessCounter' = accessCounter
           /\ last'.ret = Some(Len(cache) - Len(cache')))]_vars

CleanupExpiredFrameWitness ==
    /\ last.op = "cleanupExpired"
    /\ last.ret = Some(1)
    /\ Len(cache) = 1
    /\ Len(accessOrder) = 1
    /\ now <= cache[1].val.expiresAt

(* C24: for every data of length n and pageSize in 1..100, getAllPages
   returns exactly ceil(n / pageSize) results, none for empty data; the k-th
   result has currentPage = k and is what normal-mode paginate returns for
   page k; the pages are computed one after another in ascending page
   order. *)
AllPagesEnumeration ==
    last.op = "getAllPages"
    => LET n == Len(last.data)
           pageSize == last.pageSize
           pages == last.out
       IN /\ IF n = 0 THEN pages = <<>> ELSE IsCeiling(Len(pages), n, pageSize)
          /\ Len(Done) = Len(pages)
          /\ \A k \in 1..Len(pages) :
                /\ pages[k].meta.currentPage = k
                /\ Ok(pages[k]) =
                       ServicePaginate(This, last.data,
                           Config(Some(k), Some(pageSize), Undefined, Undefined, Undefined,
                                  Undefined)).out
                /\ Done[k].config.page = Some(k)
                /\ k > 1 => Done[k - 1].at <= Done[k].at

AllPagesEnumerationWitness ==
    /\ last.op = "getAllPages"
    /\ Len(last.data) = MaxLen
    /\ last.pageSize = 2
    /\ Len(last.out) = 2
    /\ Len(last.out[2].data) = MaxLen - 2
    /\ Done[2].at > Done[1].at

\* what the bounds functions return apart from the remark on totalPages = 0
BoundsValues ==
    LET n == last.args.totalItems
        s == last.args.pageSize
        p == last.args.page
        start == IF p <= 0 \/ s <= 0 THEN 0 ELSE (p - 1) * s
    IN /\ IF n <= 0 \/ s <= 0 THEN last.totalPages = 0
          ELSE IsCeiling(last.totalPages, n, s)
       /\ last.startIndex = start
       /\ last.endIndex = (IF start + s <= n THEN start + s ELSE n)
       /\ last.isValidPage = (1 <= p /\ p <= last.args.totalPages)

(* C25, as stated: over a bounded range of integers, totalPages(n, s) = 0
   when n <= 0 or s <= 0 and ceil(n / s) otherwise, so that for s > 0 it is
   0 iff n = 0; startIndex(p, s) = 0 when p <= 0 or s <= 0 and (p - 1) * s
   otherwise; endIndex(p, s, n) = min(startIndex(p, s) + s, n);
   isValidPage(p, t) iff 1 <= p <= t. *)
BoundsCalculatorStated ==
    last.op = "calculate"
    => /\ BoundsValues
       /\ last.args.pageSize > 0 => (last.totalPages = 0 <=> last.args.totalItems = 0)

(* C25: the same, with totalPages = 0 iff n = 0 read for s > 0 and n >= 0:
   a negative n gives 0 pages as well. *)
BoundsCalculator ==
    last.op = "calculate"
    => /\ BoundsValues
       /\ (last.args.pageSize > 0 /\ last.args.totalItems >= 0)
          => (last.totalPages = 0 <=> last.args.totalItems = 0)

BoundsCalculatorWitness ==
    /\ last.op = "calculate"
    /\ last.args.totalItems = MaxLen
    /\ last.args.pageSize = 2
    /\ last.args.page = 2
    /\ last.totalPages = MathCeilDiv(MaxLen, 2)
    /\ last.startIndex = 2
    /\ last.endIndex = MaxLen
    /\ last.args.totalPages = 2
    /\ last.isValidPage

(* C26: for a fixed data sequence, two configs that differ in page or in
   pageSize, both within 1..100, have different fingerprints, and on
   CorePaginator the fingerprint of the return-all call differs from that of
   every normal-mode call on the same data. *)
FingerprintSeparation ==
    last.op = "fingerprint"
    => /\ (\/ last.args.first.page /= last.args.second.page
           \/ last.args.first.pageSize /= last.args.second.pageSize)
          => last.first /= last.second
       /\ engine.kind = "core" => (last.all /= last.first /\ last.all /= last.second)

FingerprintSeparationWitness ==
    /\ last.op = "fingerprint"
    /\ Len(last.args.data) = MaxLen
    /\ last.args.first.page = Some(1)
    /\ last.args.first.pageSize = Some(10)
    /\ last.args.second.page = Some(10)
    /\ last.args.second.pageSize = Some(1)
    /\ last.first /= last.second
    /\ SubSeq(last.first, 1, Len(KeyPrefix)) = KeyPrefix

\* has(key) answers whether a live entry is stored, removes the entry it finds
\* expired, and leaves every recency record of a surviving key and the
\* recency counter as they were
HasFrame ==
    last'.op = "has"
    => LET k == last'.key[1]
       IN /\ last'.ret = Some(Stored(k) /\ now <= Entry(k).expiresAt)
          /\ cache' = SelectSeq(cache, LAMBDA e : ~(e.key = k /\ Outlived(k)))
          /\ accessOrder' = SelectSeq(accessOrder, LAMBDA r : ~(r.key = k /\ Outlived(k)))
          /\ accessCounter' = accessCounter

\* a key that was just probed and found, and holds the smallest recency, is
\* the one the next evicting set removes
ProbedStillEvicted ==
    (/\ last.op = "has"
     /\ last.ret = Some(TRUE)
     /\ \A k \in MapKeys(cache) : Recency(last.key[1]) <= Recency(k)
     /\ last'.op = "set"
     /\ maxSize[1] >= 1
     /\ Len(cache) = maxSize[1]
     /\ ~Stored(last'.key[1]))
    => ~MapHas(cache', last.key[1])

(* C27: has(key) returns true iff an entry is stored and now <= expiresAt;
   it removes the entry it finds expired; it never changes a recency record
   of another key or the recency counter, so a key only probed with has
   since its last get or set is still the one evicted when it holds the
   smallest recency. *)
HasIsProbe == [][HasFrame /\ ProbedStillEvicted]_vars

(* C28: a set on a key that already has a stored entry, expired or not,
   removes no key even when the cache holds maxSize entries; it replaces the
   value, sets expiresAt = now + ttl and createdAt = now, and gives the key
   the highest recency. *)
OverwriteKeepsOthers ==
    [][(last'.op = "set" /\ Stored(last'.key[1]))
       => LET k == last'.key[1]
          IN /\ MapKeys(cache') = MapKeys(cache)
             /\ \A other \in MapKeys(cache) \ {k} :
                   /\ MapGet(cache', other) = MapGet(cache, other)
                   /\ MapGet(accessOrder', other) = MapGet(accessOrder, other)
                   /\ MapGet(accessOrder', other)[1] < MapGet(accessOrder', k)[1]
             /\ \E w \in CacheWrites :
                   MapGet(cache', k) =
                       Some([value |-> w.value, expiresAt |-> now + w.ttl, createdAt |-> now])
             /\ MapGet(accessOrder', k) = Some(accessCounter')]_vars

OverwriteKeepsOthersWitness ==
    /\ last.op = "set"
    /\ last.branch = "overwrite"
    /\ maxSize = Some(MaxN)
    /\ Len(cache) = MaxN
    /\ now > 0
    /\ Entry(last.key[1]).createdAt = now
    /\ Recency(last.key[1]) = MaxAccess

(* C29: the recency counter increases by exactly one on every set and on
   every get that returns a value; has, delete, cleanupExpired and a get
   that finds no entry or an expired one leave it unchanged; only clear
   lowers it, to 0, and then no recency record remains. *)
RecencyCounter ==
    [][/\ last'.op = "set" => accessCounter' = accessCounter + 1
       /\ (last'.op = "get" /\ IsDefined(last'.ret)) => accessCounter' = accessCounter + 1
       /\ (last'.op = "get" /\ ~IsDefined(last'.ret)) => accessCounter' = accessCounter
       /\ last'.op \in {"has", "delete", "cleanupExpired"} => accessCounter' = accessCounter
       /\ last'.op = "clear" => (accessCounter' = 0 /\ accessOrder' = <<>>)
       /\ accessCounter' < accessCounter => last'.op = "clear"]_vars

RecencyCounterWitness ==
    /\ last.op = "get"
    /\ IsDefined(last.ret)
    /\ accessCounter = MaxAccess
    /\ Recency(last.key[1]) = MaxAccess
    /\ Len(cache) = 1

(* C30: delete(key) removes that key's entry and its recency record and
   nothing else: the entries and recency records of all other keys and the
   recency counter are unchanged, and delete of a key with no entry changes
   nothing at all. *)
DeleteFrame ==
    [][last'.op = "delete"
       => (/\ cache' = SelectSeq(cache, LAMBDA e : e.key /= last'.key[1])
           /\ accessOrder' = SelectSeq(accessOrder, LAMBDA r : r.key /= last'.key[1])
           /\ accessCounter' = accessCounter
           /\ ~Stored(last'.key[1]) => (cache' = cache /\ accessOrder' = accessOrder))]_vars

DeleteFrameWitness ==
    /\ last.op = "delete"
    /\ ~Stored(last.key[1])
    /\ Len(cache) = 1
    /\ Len(accessOrder) = 1
    /\ accessCounter = 2
    /\ Recency(cache[1].key) = 2

----------------------------------------------------------------------------
(* C31: after any sequence of cache operations run one at a time, the keys *)
(* that have a stored entry are the keys that have a recency record, every *)
(* recency value lies between 1 and the current counter, and no two keys   *)
(* share a recency value.                                                  *)

MapConsistency ==
    /\ MapKeys(cache) = MapKeys(accessOrder)
    /\ Len(cache) = Len(accessOrder)
    /\ \A i \in 1..Len(accessOrder) : accessOrder[i].val \in 1..accessCounter
    /\ \A i, j \in 1..Len(accessOrder) :
        i /= j => accessOrder[i].val /= accessOrder[j].val

\* two keys are stored and one of them has just been read again
MapConsistencyWitness ==
    /\ Len(cache) = 2
    /\ last.op = "get"
    /\ last.branch = "hit"
    /\ accessCounter = 3

----------------------------------------------------------------------------
\* the fingerprint a completed call was looked up and stored under
FingerprintOf(call) == EngineCacheKey(call.data, call.config)

\* the two calls ask for the same thing: the same collection in the same
\* mode and, in normal mode, the same page and page size
SameRequest(a, b) ==
    /\ a.data = b.data
    /\ ReturnAllMode(a) = ReturnAllMode(b)
    /\ ~ReturnAllMode(a) => (AskedPage(a) = AskedPage(b) /\ AskedPageSize(a) = AskedPageSize(b))

\* call i returned what it returns with caching disabled
Transparent(i) == SameOutcome(Done[i].out, Uncached(Done[i]))

\* as stated: every call of a sequence of cached calls returns the data and
\* meta it returns with caching disabled, whatever data the calls are on
CacheTransparencyStated == \A i \in 1..Len(Done) : Transparent(i)

(* C32: in a sequence of paginate calls on one engine with caching enabled,
   a call returns the data and meta it returns with caching disabled
   whenever no earlier call for a different collection, mode, page or page
   size has the same fingerprint. *)
CacheTransparency ==
    \A i \in 1..Len(Done) :
        (\A j \in 1..(i - 1) :
            FingerprintOf(Done[j]) = FingerprintOf(Done[i]) => SameRequest(Done[j], Done[i]))
        => Transparent(i)

\* a call served from the entry an earlier identical call stored, after a
\* call on the other collection
CacheTransparencyWitness ==
    /\ Len(Done) = 3
    /\ SameCall(Done[2], Done[3])
    /\ Done[1].data /= Done[2].data
    /\ FingerprintOf(Done[1]) /= FingerprintOf(Done[2])
    /\ Returned(Done[3]).fromCache
    /\ Transparent(3)

----------------------------------------------------------------------------
\* the cache after a step
StoredAfter(k) == MapHas(cache', k)
EntryAfter(k) == MapGet(cache', k)[1]

\* entry k is stored and its time to live is over
Lapsed(k) == Stored(k) /\ now > Entry(k).expiresAt

(* C33: a get or has leaves the value, createdAt and expiresAt of every
   entry it leaves stored as they were; a get or has of an entry whose time
   to live is over finds nothing and leaves nothing, however often the
   entry was read before; a paginate call whose entry's time to live is
   over returns fromCache = false and stores an entry created at the time
   of the call. *)
ReadsKeepTtl ==
    [][/\ script'.reads /= script.reads
          => /\ last'.op \in {"get", "has"}
             /\ \A k \in ProbedKeys :
                 StoredAfter(k) => (Stored(k) /\ EntryAfter(k) = Entry(k))
             /\ Lapsed(last'.key[1])
                => (/\ last'.ret \in {Undefined, Some(FALSE)}
                    /\ ~StoredAfter(last'.key[1]))
       /\ (/\ script'.done /= script.done
           /\ Lapsed(FingerprintOf(Head(script.calls))))
          => LET key == FingerprintOf(Head(script.calls)) IN
             /\ last'.out.kind = "ok"
             /\ ~Returned(last').fromCache
             /\ StoredAfter(key)
             /\ EntryAfter(key).createdAt = now
             /\ EntryAfter(key).expiresAt > now
             /\ EntryAfter(key).value = Returned(last')]_vars

\* an entry was read by get and by has while it lived, and the call made
\* after its time to live stored it anew
ReadsKeepTtlWitness ==
    /\ Len(Done) = 2
    /\ SameCall(Done[1], Done[2])
    /\ script.reads >= 2
    /\ Done[2].at > Done[1].at + AskedTtl(Done[1])
    /\ ~Returned(Done[2]).fromCache
    /\ Entry(FingerprintOf(Done[2])).createdAt = Done[2].at

----------------------------------------------------------------------------
(* C34: when cleanupExpired returns after running interleaved with set      *)
(* calls, every entry it removed was expired at the moment of its removal   *)
(* and the count it returns is the number of entries it removed.            *)
CleanupInterleaved ==
    last.op = "cleanupExpired"
    => /\ \A i \in 1..Len(last.removed) :
             IsExpired(last.removed[i].at, last.removed[i].entry)
       /\ last.ret = Some(Len(last.removed))

----------------------------------------------------------------------------
\* the keys a step removes from the cache
Gone == MapKeys(cache) \ MapKeys(cache')

\* as stated: a set that evicts while an expired entry is stored evicts an
\* expired entry
EvictionPrefersDeadStated ==
    [][(/\ last'.op = "set"
        /\ last'.branch = "evict"
        /\ \E k \in MapKeys(cache) : Lapsed(k))
       => \A victim \in Gone : Lapsed(victim)]_vars

(* C35: a set of a new key that finds the cache at capacity removes at most
   one entry, and the entry it removes is the one with the smallest recency
   value, whether or not it is expired and whether or not an expired entry
   is stored. *)
EvictionIgnoresExpiry ==
    [][(last'.op = "set" /\ last'.branch = "evict")
       => /\ Cardinality(Gone) <= 1
          /\ \A victim \in Gone : \A k \in MapKeys(cache) : Recency(victim) <= Recency(k)]_vars

\* a set has just evicted an entry and left an expired one in the cache
EvictionIgnoresExpiryWitness ==
    /\ last.op = "set"
    /\ last.branch = "evict"
    /\ Len(cache) = 2
    /\ \E k \in MapKeys(cache) : Lapsed(k)

----------------------------------------------------------------------------
\* page and pageSize are supplied, caching is disabled, noPagination is not set
PlainCall(call) ==
    /\ IsDefined(call.config.page)
    /\ IsDefined(call.config.pageSize)
    /\ ~TruthyBoolean(call.config.enableCache)
    /\ ~TruthyBoolean(call.config.noPagination)

\* the outcome of the same call on the engine of the other class
OnOtherEngine(call) ==
    IF engine.kind = "core" THEN ServicePaginate(This, call.data, call.config).out
    ELSE CorePaginate(This, call.data, call.config).out

(* C36: a paginate call with page and pageSize supplied, caching disabled   *)
(* and noPagination not set has the same outcome on CorePaginator and on    *)
(* PaginatorService: the same data and meta, or an error of the same kind.  *)
EnginesAgree ==
    \A i \in 1..Len(Done) :
        PlainCall(Done[i]) => SameOutcome(Done[i].out, OnOtherEngine(Done[i]))

----------------------------------------------------------------------------
(* C37: a SimpleCache and a MemoryCacheService of the same maxSize that     *)
(* are given the same get, set, delete, clear and has calls at the same     *)
(* times return the same value from every call and hold the same keys       *)
(* after every call.                                                        *)
CachesAgree ==
    /\ last.op /= "new" => last.ret = last.twinRet
    /\ MapKeys(cache) = MapKeys(script.twin.cache)

----------------------------------------------------------------------------
\* normal-mode paginate of page 1 with the page size of the last call
FirstPage ==
    ServicePaginate(This, last.data, CreateConfig(1, last.pageSize, FALSE)).out

(* C38: getAllPages(data, pageSize) fails exactly when normal-mode paginate *)
(* of page 1 with that pageSize fails with InvalidPageSize, and then with   *)
(* that error kind.                                                         *)
AllPagesErrors ==
    last.op = "getAllPages"
    => /\ last.kind /= "ok" <=> FirstPage.kind = "InvalidPageSize"
       /\ last.kind /= "ok" => last.kind = FirstPage.kind

----------------------------------------------------------------------------
\* the entries stored under key k
EntriesOf(k) == {i \in 1..Len(cache) : cache[i].key = k}

(* C39: once two identical paginate calls with caching enabled, started
   while the other was in flight on a cache with no entry for them, have
   both returned, both have succeeded with equal data and equal meta, and
   the cache holds exactly one entry for their fingerprint, whose value has
   fromCache = false. *)
ConcurrentIdenticalRequests ==
    (Len(Done) = 3 /\ script.pending = {})
    => /\ Done[2].out.kind = "ok"
       /\ Done[3].out.kind = "ok"
       /\ Returned(Done[2]).data = Returned(Done[3]).data
       /\ Returned(Done[2]).meta = Returned(Done[3]).meta
       /\ Cardinality(EntriesOf(FingerprintOf(Done[2]))) = 1
       /\ ~Entry(FingerprintOf(Done[2])).value.fromCache

\* both calls missed, both stored their result, the first of them after an
\* eviction that the second did not have to make
ConcurrentIdenticalRequestsWitness ==
    /\ Len(Done) = 3
    /\ script.pending = {}
    /\ maxSize = Some(1)
    /\ ~Returned(Done[2]).fromCache
    /\ ~Returned(Done[3]).fromCache
    /\ Len(cache) = 1
    /\ Stored(FingerprintOf(Done[3]))

====
